---- MODULE Spec2Model ----
(***************************************************************************)
(* Primate-Coder-Deployer: the deployment convergence loop                 *)
(* (railway_manager.py) and the operation applier (app.py,                 *)
(* github_manager.py), modelled as state machines.                         *)
(***************************************************************************)
EXTENDS Integers, Sequences, FiniteSets, TLC

VARIABLES
    \* ---- RailwayManager.wait_for_deployment ----
    pc,                     \* position of the call: idle, loop, status, logs, done
    elapsed,                \* time.time() - start_time, in seconds
    initial_deployment_id,  \* the argument of wait_for_deployment
    last_deployment_id,
    last_status,
    poll_count,
    qi,                     \* index of the query variation being tried (1..3)
    deployment,             \* the deployment the current poll found
    result,                 \* the returned triple, NoResult before the return
    sawDeployment,          \* history: a poll of this run returned a deployment
    sawTerminal,            \* history: a poll returned a terminal status
    slow,                   \* history: number of requests that took time
    \* ---- the remote file tree and apply_operations_recursive (app.py) ----
    files,                  \* the remote file tree: path -> file
    operations,             \* the list handed to apply_operations_recursive
    stack,                  \* its activations, innermost last: the list, the
                            \* index of the next operation, applied_count
    apc,                    \* idle, applying, returned
    returned_count,         \* what the outermost activation returned
    message_queue,          \* the events send_update has put
    applied,                \* history: the calls of github.apply_operation
    \* ---- one call of a GitHubManager method, request by request ----
    gpc,                    \* idle, fetch, refetch, put, create, delete, done
    call,                   \* the method called and its arguments
    edited,                 \* file_data of the method: what its own
                            \* get_file_content returned
    sha_data,               \* what overwrite_file's get_file_content returned
    new_content,            \* the content the call is about to write
    gresult,                \* how the call ended: ok, or why it raised
    pre_insert,             \* history: the last insert_lines that succeeded on
                            \* the content it had fetched, and that content
    \* ---- the workflows started by /api/submit (app.py) ----
    workflows,              \* thread -> position and history of its workflow
    observed,               \* history: what the workflow of the first thread
                            \* has been answered so far
    \* ---- one call of RailwayManager.get_latest_deployment ----
    variation,              \* the query variation being tried (0: no call)
    api_result,             \* what graphql_query returned last
    latest,                 \* how the call ended: the deployment, or raised
    \* ---- DeepSeekClient on one reply of the model ----
    ppc,                    \* idle, received, extracted, parsed
    response,               \* the text of the reply
    code_matches,           \* extract_json_objects: the fenced blocks,
    brace_objects,          \* the balanced-brace objects,
    keyword_objects,        \* the objects after keywords,
    unique_candidates,      \* and the list it returned
    parsed_operations,      \* what parse_operations returned
    validated_operations,   \* what get_validated_operations returned
    \* ---- DeepSeekClient.validate_operations on one list ----
    vpc,                    \* idle, given, validated, revalidated
    raw_operations,         \* the list handed to validate_operations
    valid_operations,       \* what it returned
    revalidated             \* what it returned for its own result

pollVars == <<pc, elapsed, initial_deployment_id, last_deployment_id, last_status,
              poll_count, qi, deployment, result, sawDeployment, sawTerminal, slow>>

applyVars == <<files, operations, stack, apc, returned_count, message_queue, applied>>

editVars == <<gpc, call, edited, sha_data, new_content, gresult, pre_insert>>

flowVars == <<workflows, observed>>

statusVars == <<variation, api_result, latest>>

parseVars == <<ppc, response, code_matches, brace_objects, keyword_objects,
               unique_candidates, parsed_operations, validated_operations>>

validateVars == <<vpc, raw_operations, valid_operations, revalidated>>

clientVars == <<statusVars, parseVars, validateVars>>

vars == <<pollVars, applyVars, editVars, flowVars, clientVars>>

None == "None"
NoField == "<missing>"
NoDeployment == [id |-> None, status |-> None]
NoResult == [status |-> None, logs |-> <<>>, id |-> None]

\* ---------------------------------------------------------------- bounds
MaxLogs == 1            \* longest log list in a response
MaxSlow == 2            \* most requests of one run that take time

\* ------------------------------------------------------------- constants
DEPLOYMENT_POLL_INTERVAL == 10
DEPLOYMENT_TIMEOUT == 600

\* Line 32: the timeout of one API request. A request returns at once or
\* takes as long as its timeout lets it.
REQUEST_TIMEOUT == 30
QueryTimes == {0, REQUEST_TIMEOUT}
DeployIds == {"d1", "d2"}
NonTerminal == {"BUILDING", "DEPLOYING"}
terminal_statuses == {"SUCCESS", "FAILED", "CRASHED", "REMOVED"}
Statuses == NonTerminal \cup terminal_statuses
NumQueries == 3

NL == "\n"
Paths == {"a.py", "b.py"}

\* The applier before any call, with the tree as the run finds it.
InitialFiles == [p \in Paths |->
                    IF p = "a.py" THEN [exists |-> TRUE, content |-> <<"x">>]
                    ELSE [exists |-> FALSE, content |-> <<>>]]
ApplyIdle ==
    /\ files = InitialFiles
    /\ operations = <<>>
    /\ stack = <<>>
    /\ apc = "idle"
    /\ returned_count = 0
    /\ message_queue = <<>>
    /\ applied = <<>>

\* No method of GitHubManager has been called yet.
NoCall == [method |-> "-", path |-> "-", content |-> <<>>, line |-> 0,
           start_line |-> 0, end_line |-> 0]
NoFile == [exists |-> FALSE, content |-> <<>>]
NoInsert == [set |-> FALSE, path |-> "-", line |-> 0, k |-> 0, content |-> <<>>]
EditIdle ==
    /\ gpc = "idle"
    /\ call = NoCall
    /\ edited = NoFile
    /\ sha_data = NoFile
    /\ new_content = <<>>
    /\ gresult = "-"
    /\ pre_insert = NoInsert

\* No request has been submitted yet: no workflow thread runs.
MaxThreads == 2         \* most requests submitted in one run
Threads == 1..MaxThreads
NotStarted == [phase |-> "none", first_count |-> -1, chats |-> 0, waits |-> 0,
               report |-> "-"]
NothingObserved == [verdict |-> "-", evaluation |-> "-", first_status |-> "-",
                    refix |-> "-", mutation_failed |-> FALSE,
                    completes |-> 0, complete_last |-> FALSE]
FlowIdle ==
    /\ workflows = [th \in Threads |-> NotStarted]
    /\ observed = NothingObserved

SeqsUpTo(S, n) == UNION {[1..k -> S] : k \in 0..n}

\* ---------------------------------------------------- status responses
\* A deployment node of a response; a node may lack its status field.
Nodes == [id : DeployIds, status : Statuses \cup {NoField}]

\* What graphql_query gives for a status query: it raises, or returns a
\* mapping of one of these shapes.
EdgeKinds == {"data_project", "data_deployments", "flat_project"}
PlainKinds == {"raise", "errors", "data_null", "data_project_bare"}
\* The deployment lists of a response: empty, the latest deployment, or the
\* latest one followed by an older one.
OlderNode == [id |-> "d1", status |-> "SUCCESS"]
EdgeLists == {<<>>} \cup {<<n>> : n \in Nodes} \cup {<<n, OlderNode>> : n \in Nodes}
StatusResponses ==
    [kind : EdgeKinds, edges : EdgeLists]
    \cup [kind : PlainKinds, edges : {<<>>}]

\* Lines 123-133: the deployment list get_latest_deployment reads out of a
\* response; the empty list stands for None too (line 135 treats them alike).
ExtractDeployments(r) ==
    CASE r.kind = "data_project" -> r.edges
      [] r.kind = "data_deployments" -> r.edges
      [] OTHER -> <<>>

\* Lines 109-147: the outcome of one query variation: "found" with the first
\* node, or "continue" with the error recorded in last_error.
QueryOutcome(r) ==
    IF r.kind = "raise"
    THEN [t |-> "continue", err |-> "exception", node |-> NoDeployment]
    ELSE IF r.kind = "errors"
    THEN [t |-> "continue", err |-> "graphql", node |-> NoDeployment]
    ELSE LET deployments == ExtractDeployments(r) IN
         IF Len(deployments) > 0
         THEN IF deployments[1].status = NoField
              THEN [t |-> "continue", err |-> "exception", node |-> NoDeployment]
              ELSE [t |-> "found", err |-> None, node |-> deployments[1]]
         ELSE [t |-> "continue", err |-> "nodeployments", node |-> NoDeployment]

NoApiResult == [kind |-> "none", edges |-> <<>>]
NotReturned == [t |-> "none", node |-> NoDeployment]
StatusIdle ==
    /\ variation = 0
    /\ api_result = NoApiResult
    /\ latest = NotReturned

ParseIdle ==
    /\ ppc = "idle"
    /\ response = <<>>
    /\ code_matches = <<>>
    /\ brace_objects = <<>>
    /\ keyword_objects = <<>>
    /\ unique_candidates = <<>>
    /\ parsed_operations = <<>>
    /\ validated_operations = <<>>

ValidateIdle ==
    /\ vpc = "idle"
    /\ raw_operations = <<>>
    /\ valid_operations = <<>>
    /\ revalidated = <<>>

\* ------------------------------------------------------- log responses
\* A log entry of a response: a mapping with a message, a mapping without
\* one, or a value that is no mapping (null, a bare string).
LogEntries == {[t |-> "map", message |-> "m1"],
               [t |-> "map", message |-> NoField],
               [t |-> "nomap", message |-> NoField]}
LogListKinds == {"deploymentLogs", "deployment_logs"}
LogPlainKinds == {"raise", "errors", "no_data", "deployment_null"}
LogResponses ==
    [kind : LogListKinds, entries : SeqsUpTo(LogEntries, MaxLogs)]
    \cup [kind : LogPlainKinds, entries : {<<>>}]

\* Lines 197-222: the log list one log query variation yields; the empty
\* list makes get_deployment_logs go on to the next variation.
ExtractLogs(r) ==
    IF r.kind \in LogListKinds THEN r.entries ELSE <<>>

\* Line 283: log.get("message", str(log)) of one entry.
LogMessage(e) == IF e.message = NoField THEN "str(log)" ELSE e.message

\* Line 283 raises when an entry has no .get, i.e. is no mapping.
LogMessagesRaise(logs) == \E i \in 1..Len(logs) : logs[i].t = "nomap"

log_messages(logs) == [i \in 1..Len(logs) |-> LogMessage(logs[i])]

TimeoutMessage == "Deployment monitoring timed out"

\* time.sleep(DEPLOYMENT_POLL_INTERVAL)
Sleep(t) == t + DEPLOYMENT_POLL_INTERVAL

\* Line 280: status in terminal_statuses.
IsTerminal(status) == status \in terminal_statuses

\* A loop condition that is off by one.
LoopConditionInclusive(t) == t <= DEPLOYMENT_TIMEOUT

\* Line 245: the loop condition.
LoopCondition(t) == t < DEPLOYMENT_TIMEOUT

\* ------------------------------------------------------------- actions
InitPoll ==
    /\ pc = "idle"
    /\ elapsed = 0
    /\ initial_deployment_id = None
    /\ last_deployment_id = None
    /\ last_status = None
    /\ poll_count = 0
    /\ qi = 0
    /\ deployment = NoDeployment
    /\ result = NoResult
    /\ sawDeployment = FALSE
    /\ sawTerminal = FALSE
    /\ slow = 0
    /\ ApplyIdle
    /\ EditIdle
    /\ FlowIdle
    /\ StatusIdle
    /\ ParseIdle
    /\ ValidateIdle

\* Lines 231-243: the call, with its argument.
WaitStart ==
    /\ UNCHANGED <<applyVars, editVars, flowVars, clientVars>>
    /\ pc = "idle"
    /\ \E init \in DeployIds \cup {None} :
        /\ initial_deployment_id' = init
        /\ last_deployment_id' = init
    /\ pc' = "loop"
    /\ elapsed' = 0
    /\ last_status' = None
    /\ poll_count' = 0
    /\ UNCHANGED <<qi, deployment, result, sawDeployment, sawTerminal, slow>>

\* Lines 245-250: the loop condition holds, a poll begins.
PollBegin ==
    /\ UNCHANGED <<applyVars, editVars, flowVars, clientVars>>
    /\ pc = "loop"
    /\ LoopCondition(elapsed)
    /\ poll_count' = poll_count + 1
    /\ pc' = "status"
    /\ qi' = 1
    /\ UNCHANGED <<elapsed, initial_deployment_id, last_deployment_id, last_status,
                   deployment, result, sawDeployment, sawTerminal, slow>>

\* Lines 296-298: the loop condition fails, the call returns TIMEOUT.
TimeoutReturn ==
    /\ UNCHANGED <<applyVars, editVars, flowVars, clientVars>>
    /\ pc = "loop"
    /\ ~LoopCondition(elapsed)
    /\ result' = [status |-> "TIMEOUT", logs |-> <<TimeoutMessage>>,
                  id |-> last_deployment_id]
    /\ pc' = "done"
    /\ UNCHANGED <<elapsed, initial_deployment_id, last_deployment_id, last_status,
                   poll_count, qi, deployment, sawDeployment, sawTerminal, slow>>

\* Lines 28-33: one request that takes d seconds; at most MaxSlow requests
\* of a run take time.
Request(d) ==
    /\ d > 0 => slow < MaxSlow
    /\ slow' = IF d > 0 THEN slow + 1 ELSE slow

\* A loop body without its except branch: the exception ends the call.
ExceptSleepPropagates(t) ==
    /\ elapsed' = t
    /\ pc' = "done"
    /\ qi' = 0
    /\ deployment' = NoDeployment

\* Lines 290-294: the except branch of the loop body: sleep, then loop. The
\* locals of the iteration are dead once it ends.
ExceptSleep(t) ==
    /\ elapsed' = Sleep(t)
    /\ pc' = "loop"
    /\ qi' = 0
    /\ deployment' = NoDeployment

\* Lines 257-288: what the loop body does with the deployment a poll found.
HandleDeployment(node, t) ==
    /\ sawDeployment' = TRUE
    /\ sawTerminal' = (sawTerminal \/ node.status \in terminal_statuses)
    /\ last_status' = node.status
    /\ last_deployment_id' = node.id
    /\ IF IsTerminal(node.status)
       THEN /\ deployment' = node
            /\ pc' = "logs"
            /\ qi' = 1
            /\ elapsed' = t
       ELSE /\ elapsed' = Sleep(t)
            /\ pc' = "loop"
            /\ qi' = 0
            /\ deployment' = NoDeployment

\* Lines 108-151 (one iteration) and 250-288: one status query variation and
\* what follows from its response. When the last variation fails too, line
\* 151 raises (last_error is set by then, line 153 is never reached) and
\* lines 290-294 catch it.
StatusQuery ==
    /\ UNCHANGED <<applyVars, editVars, flowVars, clientVars>>
    /\ pc = "status"
    /\ \E r \in StatusResponses, d \in QueryTimes :
        LET out == QueryOutcome(r)
            t == elapsed + d
        IN  /\ Request(d)
            /\ IF out.t = "found"
               THEN HandleDeployment(out.node, t)
               ELSE /\ IF qi < NumQueries
                       THEN /\ qi' = qi + 1
                            /\ elapsed' = t
                            /\ UNCHANGED <<pc, deployment>>
                       ELSE ExceptSleep(t)
                    /\ UNCHANGED <<last_deployment_id, last_status, sawDeployment,
                                   sawTerminal>>
    /\ UNCHANGED <<initial_deployment_id, poll_count, result>>

\* Lines 282-284: the return of a terminal status with the fetched logs, or
\* the exception line 283 raises on a log entry that is no mapping, which
\* lines 290-294 catch.
ReturnWithLogs(logs, t) ==
    IF LogMessagesRaise(logs)
    THEN /\ ExceptSleep(t)
         /\ UNCHANGED result
    ELSE /\ result' = [status |-> deployment.status, logs |-> log_messages(logs),
                       id |-> deployment.id]
         /\ pc' = "done"
         /\ elapsed' = t
         /\ UNCHANGED <<qi, deployment>>

\* Lines 192-229 (one iteration) and 282-284: one log query variation.
LogQuery ==
    /\ UNCHANGED <<applyVars, editVars, flowVars, clientVars>>
    /\ pc = "logs"
    /\ \E r \in LogResponses, d \in QueryTimes :
        LET logs == ExtractLogs(r)
            t == elapsed + d
        IN  /\ Request(d)
            /\ IF Len(logs) > 0
               THEN ReturnWithLogs(logs, t)
               ELSE IF qi < NumQueries
                    THEN /\ qi' = qi + 1
                         /\ elapsed' = t
                         /\ UNCHANGED <<pc, result, deployment>>
                    ELSE ReturnWithLogs(<<>>, t)
    /\ UNCHANGED <<initial_deployment_id, last_deployment_id, last_status, poll_count,
                   sawDeployment, sawTerminal>>

NextPoll == WaitStart \/ PollBegin \/ TimeoutReturn \/ StatusQuery \/ LogQuery

SpecPoll == InitPoll /\ [][NextPoll]_vars

\* Every API request and every sleep returns, so an enabled step is taken.
SpecPollFair == SpecPoll /\ WF_vars(NextPoll)

\* ---- RailwayManager.get_latest_deployment, lines 51-153, as one call
\* Line 106: the call starts with the first query variation.
LatestBegin ==
    /\ variation = 0
    /\ latest = NotReturned
    /\ variation' = 1
    /\ UNCHANGED <<api_result, latest>>
    /\ UNCHANGED <<pollVars, applyVars, editVars, flowVars, parseVars, validateVars>>

\* Lines 108-151: one query variation: the deployment found is returned;
\* otherwise the next variation is tried, and after the last one line 151
\* raises.
LatestQuery ==
    /\ variation \in 1..NumQueries
    /\ \E r \in StatusResponses :
        LET out == QueryOutcome(r) IN
        /\ api_result' = r
        /\ IF out.t = "found"
           THEN /\ latest' = [t |-> "returned", node |-> out.node]
                /\ variation' = 0
           ELSE IF variation < NumQueries
           THEN /\ variation' = variation + 1
                /\ UNCHANGED latest
           ELSE /\ latest' = [t |-> "raised", node |-> NoDeployment]
                /\ variation' = 0
    /\ UNCHANGED <<pollVars, applyVars, editVars, flowVars, parseVars, validateVars>>

NextStatus == LatestBegin \/ LatestQuery

InitStatus == InitPoll

SpecStatus == InitStatus /\ [][NextStatus]_vars

\* ======================================================================
\* The remote file tree and GitHubManager (github_manager.py)
\* ======================================================================
\* A remote file: absent, or present with its content (a string, here a
\* sequence of characters). The revision token (sha) of the contents API is
\* the hash of the content, so the content itself stands for it.
Absent == [exists |-> FALSE, content |-> <<>>]
File(c) == [exists |-> TRUE, content |-> c]
Sha(c) == c

\* content.split("\n")
RECURSIVE Split(_)
Split(str) ==
    IF \A i \in 1..Len(str) : str[i] # NL
    THEN <<str>>
    ELSE LET i == CHOOSE k \in 1..Len(str) :
                      str[k] = NL /\ \A j \in 1..(k - 1) : str[j] # NL
         IN  <<SubSeq(str, 1, i - 1)>> \o Split(SubSeq(str, i + 1, Len(str)))

\* "\n".join(lines)
RECURSIVE Join(_)
Join(lines) ==
    IF Len(lines) = 0 THEN <<>>
    ELSE IF Len(lines) = 1 THEN lines[1]
    ELSE lines[1] \o <<NL>> \o Join(Tail(lines))

\* The outcome of a call on the tree: whether it returned or raised, and
\* the tree it leaves.
Ok(tree) == [ok |-> TRUE, files |-> tree, why |-> "-"]
Raise(tree, why) == [ok |-> FALSE, files |-> tree, why |-> why]

\* Lines 16-33: get_file_content; absent paths give None (the 404 branch).
get_file_content(tree, path) == tree[path]

\* A create that writes whether the path exists or not.
create_file_overwrites(tree, path, content) ==
    Ok([tree EXCEPT ![path] = File(content)])

\* Lines 84-101: create_file puts without a sha; the store rejects the put
\* when the path exists.
create_file(tree, path, content) ==
    IF tree[path].exists
    THEN Raise(tree, "conflict")
    ELSE Ok([tree EXCEPT ![path] = File(content)])

\* Lines 112-127: the put of overwrite_file, with the sha it fetched; the
\* store rejects it when the file's sha is another one by then.
PutWithSha(tree, path, content, sha) ==
    IF tree[path].exists /\ Sha(tree[path].content) = sha
    THEN Ok([tree EXCEPT ![path] = File(content)])
    ELSE Raise(tree, "conflict")

\* Lines 103-127: overwrite_file.
overwrite_file(tree, path, content) ==
    LET file_data == get_file_content(tree, path) IN
    IF ~file_data.exists
    THEN create_file(tree, path, content)
    ELSE PutWithSha(tree, path, content, Sha(file_data.content))

\* A line check that refuses the line after the last one.
InsertValidNoAppend(lines, line_number) ==
    ~(line_number < 1 \/ line_number > Len(lines))

\* A splice that puts the new lines after the line at the index.
SpliceAfter(lines, line_number, insert) ==
    LET at == IF line_number > Len(lines) THEN Len(lines) ELSE line_number
    IN  SubSeq(lines, 1, at) \o insert \o SubSeq(lines, at + 1, Len(lines))

\* Lines 139 and 144: the line check and the splice of insert_lines.
InsertValid(lines, line_number) ==
    ~(line_number < 1 \/ line_number > Len(lines) + 1)
Splice(lines, line_number, insert) ==
    SubSeq(lines, 1, line_number - 1) \o insert
        \o SubSeq(lines, line_number, Len(lines))

\* Lines 129-147: insert_lines.
insert_lines(tree, path, line_number, content) ==
    LET file_data == get_file_content(tree, path) IN
    IF ~file_data.exists THEN Raise(tree, "missing")
    ELSE LET lines == Split(file_data.content) IN
         IF ~InsertValid(lines, line_number) THEN Raise(tree, "range")
         ELSE overwrite_file(tree, path,
                             Join(Splice(lines, line_number, Split(content))))

\* Lines 149-169: delete_file.
delete_file(tree, path) ==
    LET file_data == get_file_content(tree, path) IN
    IF ~file_data.exists THEN Raise(tree, "missing")
    ELSE Ok([tree EXCEPT ![path] = Absent])

\* A cut that keeps the last line of the range.
CutExclusive(lines, start_line, end_line) ==
    SubSeq(lines, 1, start_line - 1) \o SubSeq(lines, end_line, Len(lines))

\* Lines 181 and 187: the range check and the cut of delete_lines.
DeleteValid(lines, start_line, end_line) ==
    ~(start_line < 1 \/ end_line > Len(lines) \/ start_line > end_line)
Cut(lines, start_line, end_line) ==
    SubSeq(lines, 1, start_line - 1) \o SubSeq(lines, end_line + 1, Len(lines))

\* Lines 171-190: delete_lines.
delete_lines(tree, path, start_line, end_line) ==
    LET file_data == get_file_content(tree, path) IN
    IF ~file_data.exists THEN Raise(tree, "missing")
    ELSE LET lines == Split(file_data.content) IN
         IF ~DeleteValid(lines, start_line, end_line) THEN Raise(tree, "range")
         ELSE overwrite_file(tree, path, Join(Cut(lines, start_line, end_line)))

\* ----------------------------------------------------- operation records
\* An operation record as the parser hands it on: the keys it has, those of
\* them whose value is null, and the values (a field that is absent or null
\* holds a filler value that is never read).
Record(kind, keys, nulls, path, content, line, s, e, nested) ==
    [operation |-> kind, keys |-> keys, nulls |-> nulls, path |-> path,
     content |-> content, line |-> line, start_line |-> s, end_line |-> e,
     operations |-> nested, fixes |-> <<>>, message |-> <<>>]
CreateFile(path, content) ==
    Record("CREATE_FILE", {"operation", "path", "content"}, {}, path, content,
           0, 0, 0, <<>>)
OverwriteFile(path, content) ==
    Record("OVERWRITE_FILE", {"operation", "path", "content"}, {}, path, content,
           0, 0, 0, <<>>)
InsertLines(path, line, content) ==
    Record("INSERT_LINES", {"operation", "path", "line", "content"}, {}, path,
           content, line, 0, 0, <<>>)
DeleteFile(path) ==
    Record("DELETE_FILE", {"operation", "path"}, {}, path, <<>>, 0, 0, 0, <<>>)
DeleteLines(path, s, e) ==
    Record("DELETE_LINES", {"operation", "path", "start_line", "end_line"}, {},
           path, <<>>, 0, s, e, <<>>)
MultipleOperations(nested) ==
    Record("MULTIPLE_OPERATIONS", {"operation", "operations"}, {}, "", <<>>,
           0, 0, 0, nested)
VerifyComplete ==
    Record("VERIFY_COMPLETE", {"operation", "message"}, {}, "", <<>>, 0, 0, 0, <<>>)
NeedsRetry ==
    Record("NEEDS_RETRY", {"operation", "message"}, {}, "", <<>>, 0, 0, 0, <<>>)
\* NEEDS_RETRY as the prompt asks for it and the parser hands it on: with
\* the list of fixes under the key "fixes".
NeedsRetryWith(fixes) ==
    [NeedsRetry EXCEPT !.keys = @ \cup {"fixes"}, !.fixes = fixes]

\* operation.get("operation"): None for a record without the tag.
OpType(op) == IF "operation" \in op.keys THEN op.operation ELSE None

\* operation[key] raises KeyError for an absent key.
HasKeys(op, ks) == ks \subseteq op.keys

\* Lines 204-238: a file mutation of apply_operation. A missing key raises
\* KeyError and a null content raises in the callee (None has no encode and
\* no split); the records drawn here hold null in no other field.
ApplyLeaf(tree, op) ==
    LET t == OpType(op)
        usable(ks) == HasKeys(op, ks) /\ op.nulls \cap ks = {}
    IN  CASE t = "CREATE_FILE" ->
               IF usable({"path", "content"})
               THEN create_file(tree, op.path, op.content) ELSE Raise(tree, "field")
          [] t = "OVERWRITE_FILE" ->
               IF usable({"path", "content"})
               THEN overwrite_file(tree, op.path, op.content) ELSE Raise(tree, "field")
          [] t = "INSERT_LINES" ->
               IF usable({"path", "line", "content"})
               THEN insert_lines(tree, op.path, op.line, op.content)
               ELSE Raise(tree, "field")
          [] t = "DELETE_FILE" ->
               IF usable({"path"}) THEN delete_file(tree, op.path) ELSE Raise(tree, "field")
          [] t = "DELETE_LINES" ->
               IF usable({"path", "start_line", "end_line"})
               THEN delete_lines(tree, op.path, op.start_line, op.end_line)
               ELSE Raise(tree, "field")
          [] OTHER -> Raise(tree, "unknown")   \* line 241: unknown operation type

\* Lines 196-202: the MULTIPLE_OPERATIONS branch of apply_operation: the
\* return of line 202 is inside the loop, so the call returns after its
\* first child; with no child the loop body never runs.
\* The outcome also lists the records that reached a mutation method.
RECURSIVE apply_operation(_, _)
apply_operation(tree, op) ==
    IF OpType(op) = "MULTIPLE_OPERATIONS"
    THEN LET nested_ops == IF "operations" \in op.keys THEN op.operations ELSE <<>>
         IN  IF Len(nested_ops) = 0
             THEN [ok |-> TRUE, files |-> tree, why |-> "-", calls |-> <<>>]
             ELSE apply_operation(tree, nested_ops[1])
    ELSE LET r == ApplyLeaf(tree, op)
         IN  [ok |-> r.ok, files |-> r.files, why |-> r.why, calls |-> <<op>>]

\* ======================================================================
\* apply_operations_recursive (app.py)
\* ======================================================================
\* ---- the operation lists a reply can hold
MaxNodes == 3           \* most operation records in one list, nested ones included
MaxDepth == 2           \* deepest nesting of MULTIPLE_OPERATIONS

\* A small alphabet of records. As the run finds the tree (a.py of one
\* line, no b.py) some of them succeed at once, some only after another one
\* has changed the tree, and some fail.
InsertAt == {1, 3}
LeafOps ==
    {CreateFile("b.py", <<"n">>),
     OverwriteFile("a.py", <<"n", NL, "m">>),
     DeleteFile("b.py"),
     DeleteLines("a.py", 2, 3)}
    \cup {InsertLines("a.py", l, <<"n", NL, "m">>) : l \in InsertAt}

\* A record that breaks its kind's field rule: a CREATE_FILE with no path.
BadOps ==
    {Record("CREATE_FILE", {"operation", "content"}, {}, "", <<"n">>, 0, 0, 0, <<>>)}

SignalOps == {VerifyComplete, NeedsRetry}

\* The operation records of exactly n nodes nested at most d deep, and the
\* lists of such records with n nodes in all.
RECURSIVE OpTrees(_, _), OpLists(_, _)
OpTrees(d, n) ==
    IF n = 1
    THEN LeafOps \cup BadOps \cup SignalOps
         \cup (IF d > 0 THEN {MultipleOperations(<<>>)} ELSE {})
    ELSE IF d > 0 THEN {MultipleOperations(l) : l \in OpLists(d - 1, n - 1)}
    ELSE {}
OpLists(d, n) ==
    IF n = 0 THEN {<<>>}
    ELSE UNION {LET first == OpTrees(d, k)
                    rest == OpLists(d, n - k)
                IN  {<<t>> \o l : t \in first, l \in rest} : k \in 1..n}
\* A verification reply that is one NEEDS_RETRY with its fixes.
RetryReplies ==
    {<<NeedsRetryWith(<<CreateFile("b.py", <<"n">>),
                        OverwriteFile("a.py", <<"n", NL, "m">>)>>)>>,
     <<NeedsRetryWith(<<DeleteFile("b.py")>>)>>}
\* A reply in which a NEEDS_RETRY comes first, a nested list holds a
\* VERIFY_COMPLETE before a mutation, and a mutation follows the nested list.
SignalBatches ==
    {<<NeedsRetry,
       MultipleOperations(<<VerifyComplete, CreateFile("b.py", <<"n">>)>>),
       OverwriteFile("a.py", <<"n", NL, "m">>)>>}
Batches ==
    UNION {OpLists(MaxDepth, n) : n \in 0..MaxNodes} \cup RetryReplies
        \cup SignalBatches

\* ---- send_update, lines 16-24: an event of the queue
Event(type, kind, path) == [type |-> type, kind |-> kind, path |-> path]

\* operation.get('path', 'N/A')
PathOf(op) == IF "path" \in op.keys THEN op.path ELSE "N/A"

\* A dispatch that lets the signal operations through to the mutation branch.
DispatchSignalsThrough(t) ==
    IF t = "MULTIPLE_OPERATIONS" THEN "nested" ELSE "apply"

\* Lines 33, 38, 42 and 50: what the loop body does with an operation type.
Dispatch(t) ==
    CASE t = "VERIFY_COMPLETE" -> "return"
      [] t = "NEEDS_RETRY" -> "skip"
      [] t = "MULTIPLE_OPERATIONS" -> "nested"
      [] OTHER -> "apply"

\* A tree read once and kept across the operations of the list.
CachedTree == InitialFiles

\* Line 53: each call reads the remote tree as it then is (lines 106, 131,
\* 151, 173: every mutation method fetches the file anew).
RemoteTree == files

\* A loop that gives up its list at the first failed mutation.
NextChildHalts(ops, i, ok) == IF ok THEN i + 1 ELSE Len(ops) + 1

\* Lines 29 and 56-57: the except branch ends the iteration, the loop goes
\* on with the next operation whether the mutation succeeded or not.
NextChild(ops, i, ok) == i + 1

\* A count of the attempts instead of the successes.
CountAfterAttempt(n, ok) == n + 1

\* Lines 55-57: applied_count after the attempt.
CountAfter(n, ok) == IF ok THEN n + 1 ELSE n

Top == stack[Len(stack)]
\* conflict is history: a mutation of this activation failed on a missing
\* file or a rejected write.
Frame(ops, i, n, c) == [ops |-> ops, i |-> i, applied_count |-> n, conflict |-> c]
SetTop(f) == [stack EXCEPT ![Len(stack)] = f]
AtOperation == apc = "applying" /\ Top.i <= Len(Top.ops)
operation == Top.ops[Top.i]

\* Line 92 (and 124, 182): the workflow hands the parsed list to
\* apply_operations_recursive as it is.
ApplyBegin ==
    /\ apc = "idle"
    /\ \E ops \in Batches :
        /\ operations' = ops
        /\ stack' = <<Frame(ops, 1, 0, FALSE)>>
    /\ apc' = "applying"
    /\ UNCHANGED <<files, returned_count, message_queue, applied>>
    /\ UNCHANGED <<pollVars, editVars, flowVars, clientVars>>

\* A return that unwinds every activation, the callers' lists given up.
ReturnUnwinds(n, events) ==
    /\ stack' = <<>>
    /\ apc' = "returned"
    /\ returned_count' = n
    /\ message_queue' = message_queue \o events

\* Lines 36 and 59: an activation returns its applied_count; lines 45-48:
\* the caller adds it to its own count and goes on with its next operation.
Return(n, events) ==
    IF Len(stack) = 1
    THEN /\ stack' = <<>>
         /\ apc' = "returned"
         /\ returned_count' = n
         /\ message_queue' = message_queue \o events
    ELSE LET caller == stack[Len(stack) - 1] IN
         /\ stack' = [SubSeq(stack, 1, Len(stack) - 1) EXCEPT ![Len(stack) - 1] =
                         Frame(caller.ops, caller.i + 1, caller.applied_count + n,
                               caller.conflict)]
         /\ message_queue' = message_queue \o events
                \o <<Event("operation_success", "nested", "-")>>
         /\ UNCHANGED <<apc, returned_count>>

\* Lines 29 and 59: the list is exhausted.
ApplyReturn ==
    /\ apc = "applying"
    /\ Top.i > Len(Top.ops)
    /\ Return(Top.applied_count, <<>>)
    /\ UNCHANGED <<files, operations, applied>>
    /\ UNCHANGED <<pollVars, editVars, flowVars, clientVars>>

\* Lines 33-36: VERIFY_COMPLETE ends the activation.
ApplyVerifyComplete ==
    /\ AtOperation
    /\ Dispatch(OpType(operation)) = "return"
    /\ Return(Top.applied_count,
              <<Event("status", "-", "-"), Event("complete", "-", "-")>>)
    /\ UNCHANGED <<files, operations, applied>>
    /\ UNCHANGED <<pollVars, editVars, flowVars, clientVars>>

\* Lines 38-40: NEEDS_RETRY is reported and skipped.
ApplyNeedsRetry ==
    /\ AtOperation
    /\ Dispatch(OpType(operation)) = "skip"
    /\ message_queue' = Append(message_queue, Event("error", "NEEDS_RETRY", "-"))
    /\ stack' = SetTop(Frame(Top.ops, Top.i + 1, Top.applied_count, Top.conflict))
    /\ UNCHANGED <<files, operations, apc, returned_count, applied>>
    /\ UNCHANGED <<pollVars, editVars, flowVars, clientVars>>

\* Lines 42-45: MULTIPLE_OPERATIONS opens an activation for its list.
ApplyNested ==
    /\ AtOperation
    /\ Dispatch(OpType(operation)) = "nested"
    /\ stack' = Append(stack,
                       Frame(IF "operations" \in operation.keys
                             THEN operation.operations ELSE <<>>, 1, 0, FALSE))
    /\ UNCHANGED <<files, operations, apc, returned_count, message_queue, applied>>
    /\ UNCHANGED <<pollVars, editVars, flowVars, clientVars>>


\* An outcome event that reports success whatever happened.
OutcomeEventAlwaysSuccess(op, ok) == Event("operation_success", OpType(op), "-")

\* Lines 54 and 57: the outcome event of the attempt.
OutcomeEvent(op, ok) ==
    IF ok THEN Event("operation_success", OpType(op), "-")
    ELSE Event("error", OpType(op), "-")

\* Lines 50-57: any other record goes to github.apply_operation; a request
\* may fail on the way (network, server), which raises and changes nothing.
ApplyMutation ==
    /\ AtOperation
    /\ Dispatch(OpType(operation)) = "apply"
    /\ \E net \in BOOLEAN :
        LET r == IF net THEN apply_operation(RemoteTree, operation)
                 ELSE [ok |-> FALSE, files |-> files, why |-> "network",
                       calls |-> <<operation>>]
        IN  /\ files' = r.files
            /\ applied' = Append(applied,
                                 [op |-> operation, ok |-> r.ok, why |-> r.why])
            /\ message_queue' = message_queue
                   \o <<Event("operation", OpType(operation), PathOf(operation)),
                        OutcomeEvent(operation, r.ok)>>
            /\ stack' = SetTop(Frame(Top.ops, NextChild(Top.ops, Top.i, r.ok),
                                     CountAfter(Top.applied_count, r.ok),
                                     Top.conflict \/ r.why \in {"missing", "conflict"}))
    /\ UNCHANGED <<operations, apc, returned_count>>
    /\ UNCHANGED <<pollVars, editVars, flowVars, clientVars>>

NextApply ==
    ApplyBegin \/ ApplyReturn \/ ApplyVerifyComplete \/ ApplyNeedsRetry
        \/ ApplyNested \/ ApplyMutation

InitApply == InitPoll

SpecApply == InitApply /\ [][NextApply]_vars

\* ---- GitHubManager.apply_operation called on its own
\* Lines 192-241: a caller hands one operation record, of any kind, to
\* apply_operation.
DirectApply ==
    /\ apc = "idle"
    /\ \E n \in 1..MaxNodes : \E op \in OpTrees(MaxDepth, n) :
        LET r == apply_operation(files, op) IN
        /\ operations' = <<op>>
        /\ files' = r.files
        /\ applied' = [i \in 1..Len(r.calls) |->
                          [op |-> r.calls[i], ok |-> r.ok, why |-> r.why]]
    /\ apc' = "direct"
    /\ UNCHANGED <<stack, returned_count, message_queue>>
    /\ UNCHANGED <<pollVars, editVars, flowVars, clientVars>>

NextGitHub == DirectApply

SpecGitHub == InitApply /\ [][NextGitHub]_vars

\* ======================================================================
\* One call of a GitHubManager method, request by request, on a repository
\* other writers commit to (github_manager.py)
\* ======================================================================
MaxLine == 4            \* largest line number an argument holds
MaxLines == 3           \* most lines of a file a call makes

EditPaths == {"a.py"}
\* The contents other writers commit, and those the calls carry.
TheirContents == {<<"x">>, <<"x", NL, "y">>}
OurContents == {<<"n">>, <<"n", NL, "m">>, <<"n", NL>>}

Calls ==
    {[NoCall EXCEPT !.method = m, !.path = p, !.content = c] :
        m \in {"create_file", "overwrite_file"}, p \in EditPaths, c \in OurContents}
    \cup {[NoCall EXCEPT !.method = "insert_lines", !.path = p, !.line = l,
                         !.content = c] :
            p \in EditPaths, l \in 0..MaxLine, c \in OurContents}
    \cup {[NoCall EXCEPT !.method = "delete_file", !.path = p] : p \in EditPaths}
    \cup {[NoCall EXCEPT !.method = "delete_lines", !.path = p, !.start_line = s,
                         !.end_line = e] :
            p \in EditPaths, s \in 0..MaxLine, e \in 0..MaxLine}

applyRest == <<operations, stack, apc, returned_count, message_queue, applied>>

\* A check of the fetched file that never finds it missing.
MissingNever(fd) == FALSE

\* Lines 133, 153 and 175: if not file_data.
Missing(fd) == ~fd.exists

\* An overwrite that never falls back to create_file.
NoFallback(fd) == FALSE

\* Line 108: if not file_data, overwrite_file creates the file.
OverwriteFallback(fd) == ~fd.exists

\* Lines 156-169: the delete request, with the sha delete_file fetched; the
\* store rejects it when the file is gone or its sha is another one by then.
DeleteWithSha(tree, path, sha) ==
    IF tree[path].exists /\ Sha(tree[path].content) = sha
    THEN Ok([tree EXCEPT ![path] = Absent])
    ELSE Raise(tree, "conflict")

\* The method's first request: create_file puts at once, overwrite_file
\* fetches the sha, the other methods fetch the file.
FirstStep(method) ==
    CASE method = "create_file" -> "create"
      [] method = "overwrite_file" -> "refetch"
      [] OTHER -> "fetch"

\* History: the call deletes exactly the lines the last insert_lines put in.
Undoes(c) ==
    /\ pre_insert.set
    /\ c.method = "delete_lines"
    /\ c.path = pre_insert.path
    /\ c.start_line = pre_insert.line
    /\ c.end_line = pre_insert.line + pre_insert.k - 1

\* Lines 192-238: a method is called.
CallBegin ==
    /\ gpc \in {"idle", "done"}
    /\ \E c \in Calls :
        /\ call' = c
        /\ gpc' = FirstStep(c.method)
        /\ new_content' = c.content
        /\ pre_insert' = IF Undoes(c) THEN pre_insert ELSE NoInsert
    /\ edited' = NoFile
    /\ sha_data' = NoFile
    /\ gresult' = "-"
    /\ UNCHANGED <<files, applyRest, pollVars, flowVars, clientVars>>

\* The call raises: nothing is written.
Raises(why) ==
    /\ gresult' = why
    /\ gpc' = "done"
    /\ pre_insert' = NoInsert
    /\ UNCHANGED new_content

\* Lines 131-145, 151-154 and 173-188: the method fetches the file, checks
\* it and computes the new content.
Fetch ==
    /\ gpc = "fetch"
    /\ LET fd == get_file_content(files, call.path) IN
       /\ edited' = fd
       /\ IF Missing(fd) THEN Raises("missing")
          ELSE IF call.method = "delete_file"
          THEN /\ gpc' = "delete"
               /\ UNCHANGED <<gresult, new_content, pre_insert>>
          ELSE LET lines == Split(fd.content) IN
               IF call.method = "insert_lines"
               THEN IF ~InsertValid(lines, call.line) THEN Raises("range")
                    ELSE /\ Len(lines) + Len(Split(call.content)) <= MaxLines
                         /\ new_content' =
                               Join(Splice(lines, call.line, Split(call.content)))
                         /\ gpc' = "refetch"
                         /\ UNCHANGED <<gresult, pre_insert>>
               ELSE IF ~DeleteValid(lines, call.start_line, call.end_line)
                    THEN Raises("range")
                    ELSE /\ new_content' =
                               Join(Cut(lines, call.start_line, call.end_line))
                         /\ gpc' = "refetch"
                         /\ UNCHANGED <<gresult, pre_insert>>
    /\ UNCHANGED <<files, call, sha_data, applyRest, pollVars, flowVars, clientVars>>

\* Lines 106-110: overwrite_file fetches the file for its sha.
Refetch ==
    /\ gpc = "refetch"
    /\ LET fd == get_file_content(files, call.path) IN
       /\ sha_data' = fd
       /\ gpc' = IF OverwriteFallback(fd) THEN "create" ELSE "put"
    /\ UNCHANGED <<files, call, edited, new_content, gresult, pre_insert,
                   applyRest, pollVars, flowVars, clientVars>>

\* The write request has been answered: the call returns or raises.
Finish(r) ==
    /\ files' = r.files
    /\ gresult' = IF r.ok THEN "ok" ELSE r.why
    /\ gpc' = "done"
    /\ pre_insert' =
          IF r.ok /\ call.method = "insert_lines" /\ files[call.path] = edited
          THEN [set |-> TRUE, path |-> call.path, line |-> call.line,
                k |-> Len(Split(call.content)), content |-> edited.content]
          ELSE [pre_insert EXCEPT !.set = FALSE]
    /\ UNCHANGED <<call, edited, sha_data, new_content, applyRest, pollVars, flowVars, clientVars>>

\* Lines 112-127: the put of overwrite_file.
Put ==
    /\ gpc = "put"
    /\ Finish(PutWithSha(files, call.path, new_content, Sha(sha_data.content)))

\* Lines 86-101: the put of create_file.
Create ==
    /\ gpc = "create"
    /\ Finish(create_file(files, call.path, new_content))

\* Lines 156-169: the delete request of delete_file.
Delete ==
    /\ gpc = "delete"
    /\ Finish(DeleteWithSha(files, call.path, Sha(edited.content)))

\* Another writer of the repository commits a change or a deletion.
OtherWriter ==
    /\ \E p \in EditPaths, f \in {Absent} \cup {File(c) : c \in TheirContents} :
        /\ f # files[p]
        /\ files' = [files EXCEPT ![p] = f]
        /\ pre_insert' = IF pre_insert.path = p THEN NoInsert ELSE pre_insert
    /\ UNCHANGED <<gpc, call, edited, sha_data, new_content, gresult,
                   applyRest, pollVars, flowVars, clientVars>>

NextEdit == CallBegin \/ Fetch \/ Refetch \/ Put \/ Create \/ Delete \/ OtherWriter

InitEdit == InitPoll

SpecEdit == InitEdit /\ [][NextEdit]_vars

\* ======================================================================
\* The workflows /api/submit starts (app.py)
\* ======================================================================
MaxApplied == 2         \* largest count an apply step returns

\* The counts an apply step returns: nothing applied, or something.
Counts == {0, MaxApplied}

Applying == {"applying", "fixing", "errfixing"}

\* A workflow that goes on to the verification whatever the count was.
AfterApplyAlwaysVerify(count) == "verify"

\* Lines 94-99: with a count of 0 the workflow reports and returns.
AfterApply(count) == IF count = 0 THEN "done" ELSE "verify"

\* What the model's verification reply parses to: a list that starts with
\* VERIFY_COMPLETE, another list of operations, or the empty list.
Verdicts == {"verified", "fixes", "empty"}

\* Lines 118-126: what follows the verification: the fixes are applied when
\* the reply holds operations and does not start with VERIFY_COMPLETE; the
\* workflow then waits for the deployment in every case.
AfterVerify(verdict) == IF verdict = "fixes" THEN "fixing" ELSE "wait"

\* What the model's evaluation reply parses to: a list that starts with
\* VERIFY_COMPLETE, another list of operations, or the empty list.
Evaluations == {"complete", "fixes", "empty"}

\* Lines 160-163: after the evaluation the workflow reports (complete or a
\* warning) and ends; the operations of the reply are not looked at further.
AfterEvaluate(evaluation) == "done"

\* A workflow that waits for a new deployment whatever the fixes did.
RerunAlways(fix_count) == TRUE

\* Line 183: the workflow waits for a new deployment if a fix was applied.
Rerun(fix_count) == fix_count > 0

Moves(th, w) ==
    /\ workflows' = [workflows EXCEPT ![th] = w]
    /\ UNCHANGED <<pollVars, applyVars, editVars, clientVars>>

\* History of the first thread's workflow.
Notes(th, h) == observed' = IF th = 1 THEN h ELSE observed

\* Lines 16-24: the events a step has put, as far as the history keeps
\* them: how many of them are of type complete (none, one, or 2 for two or
\* more), and whether the last one is.
Sent(h, completes, complete_last) ==
    [h EXCEPT !.completes = IF @ + completes > 1 THEN 2 ELSE @ + completes,
              !.complete_last = complete_last]

\* Lines 33-36 as seen from the caller of apply_operations_recursive: the
\* number of VERIFY_COMPLETE operations the call reached, each of which put
\* a complete event. (A list with several nested lists can reach more than
\* one.)
Reached == 0..1

\* An exception that is reported and then ignored.
FatalContinues(th, completes) ==
    /\ Moves(th, [workflows[th] EXCEPT !.report = "fatal"])
    /\ Notes(th, Sent(observed, completes + 1, TRUE))

\* Lines 196-198: an exception of any step ends the workflow with an error
\* and a complete event, after the events the step had put before it raised.
Fatal(th, completes) ==
    /\ Moves(th, [workflows[th] EXCEPT !.phase = "done", !.report = "fatal"])
    /\ Notes(th, Sent(observed, completes + 1, TRUE))

\* Lines 205-223: a request with a text starts a thread, whatever the
\* threads started before it are doing.
Submit ==
    \E th \in Threads :
        /\ workflows[th].phase = "none"
        /\ \A o \in Threads : o < th => workflows[o].phase # "none"
        /\ Moves(th, [workflows[th] EXCEPT !.phase = "fetch"])
        /\ UNCHANGED observed

\* Lines 64-74: the clients are made and the codebase is fetched.
FetchCodebase ==
    \E th \in Threads :
        /\ workflows[th].phase = "fetch"
        /\ \/ /\ Moves(th, [workflows[th] EXCEPT !.phase = "chat"])
              /\ Notes(th, Sent(observed, 0, FALSE))
           \/ Fatal(th, 0)

\* Lines 77-79: the request goes to the model; chat raises when the API
\* request fails (deepseek_client.py:116-117).
Chat ==
    \E th \in Threads :
        /\ workflows[th].phase = "chat"
        /\ \/ /\ Moves(th, [workflows[th] EXCEPT !.phase = "parse",
                                                 !.chats = @ + 1])
              /\ Notes(th, Sent(observed, 0, FALSE))
           \/ Fatal(th, 0)

\* Lines 82-90: the reply is parsed; with no operation the workflow reports
\* and returns.
Parse ==
    \E th \in Threads, some \in BOOLEAN :
        /\ workflows[th].phase = "parse"
        /\ IF some
           THEN /\ Moves(th, [workflows[th] EXCEPT !.phase = "applying"])
                /\ Notes(th, Sent(observed, 0, FALSE))
           ELSE /\ Moves(th, [workflows[th] EXCEPT !.phase = "done",
                                                   !.report = "no_code"])
                /\ Notes(th, Sent(observed, 1, TRUE))

\* Lines 92-99: apply_operations_recursive returns its count, whether or not
\* a mutation of the list failed (lines 56-57), or raises on a record that
\* is no mapping (line 30).
ApplyDone ==
    \E th \in Threads :
        /\ workflows[th].phase = "applying"
        /\ \/ \E count \in Counts, failed \in BOOLEAN, completes \in Reached :
                /\ Moves(th, [workflows[th] EXCEPT
                                 !.phase = AfterApply(count),
                                 !.first_count = count,
                                 !.report = IF AfterApply(count) = "done"
                                            THEN "no_changes" ELSE @])
                /\ Notes(th, Sent([observed EXCEPT !.mutation_failed = @ \/ failed],
                                  IF AfterApply(count) = "done"
                                  THEN completes + 1 ELSE completes,
                                  AfterApply(count) = "done"))
           \/ \E completes \in Reached : Fatal(th, completes)

\* Lines 102-126: the model is asked to verify, and its reply is parsed.
Verify ==
    \E th \in Threads, verdict \in Verdicts :
        /\ workflows[th].phase = "verify"
        /\ \/ /\ Moves(th, [workflows[th] EXCEPT !.phase = AfterVerify(verdict),
                                                 !.chats = @ + 1])
              /\ Notes(th, Sent([observed EXCEPT !.verdict = verdict], 0, FALSE))
           \/ Fatal(th, 0)

\* Lines 124-126: the fixes have been applied.
FixDone ==
    \E th \in Threads, failed \in BOOLEAN :
        /\ workflows[th].phase = "fixing"
        /\ \/ \E completes \in Reached, ended \in BOOLEAN :
                \* ended: the call returned on a VERIFY_COMPLETE of the
                \* outermost list with a count of 0, so that no event
                \* follows the complete event (lines 35-36 and 125).
                /\ ended => completes = 1
                /\ Moves(th, [workflows[th] EXCEPT !.phase = "wait"])
                /\ Notes(th, Sent([observed EXCEPT !.mutation_failed = @ \/ failed],
                                  completes, ended))
           \/ \E completes \in Reached : Fatal(th, completes)

\* Lines 129-141, 165 and 191-194: wait_for_deployment returns a status.
Wait ==
    \E th \in Threads, status \in terminal_statuses \cup {"TIMEOUT"} :
        /\ workflows[th].phase = "wait"
        /\ Moves(th, [workflows[th] EXCEPT
                         !.waits = @ + 1,
                         !.phase = CASE status = "SUCCESS" -> "evaluate"
                                     [] status \in {"FAILED", "CRASHED"} -> "analyze"
                                     [] OTHER -> "done",
                         !.report = IF status \in {"SUCCESS", "FAILED", "CRASHED"}
                                    THEN @ ELSE "finished"])
        /\ Notes(th, IF status \in {"SUCCESS", "FAILED", "CRASHED"}
                     THEN Sent([observed EXCEPT !.first_status = status], 0, FALSE)
                     ELSE Sent([observed EXCEPT !.first_status = status], 1, TRUE))

\* Lines 142-163 and 194: the model evaluates the logs of a successful
\* deployment; line 161 puts a complete event when the reply starts with
\* VERIFY_COMPLETE, and line 194 puts one in every case.
Evaluate ==
    \E th \in Threads, evaluation \in Evaluations :
        /\ workflows[th].phase = "evaluate"
        /\ \/ /\ Moves(th, [workflows[th] EXCEPT
                               !.phase = AfterEvaluate(evaluation),
                               !.chats = @ + 1,
                               !.report = "finished"])
              /\ Notes(th, Sent([observed EXCEPT !.evaluation = evaluation],
                                IF evaluation = "complete" THEN 2 ELSE 1, TRUE))
           \/ Fatal(th, 0)

\* Lines 166-181 and 194: the model analyses the logs of a failed
\* deployment; the operations of its reply, if any, are applied.
Analyze ==
    \E th \in Threads, fixes \in BOOLEAN :
        /\ workflows[th].phase = "analyze"
        /\ \/ /\ Moves(th, [workflows[th] EXCEPT
                               !.phase = IF fixes THEN "errfixing" ELSE "done",
                               !.chats = @ + 1,
                               !.report = IF fixes THEN @ ELSE "finished"])
              /\ Notes(th, Sent([observed EXCEPT !.refix = IF fixes THEN @ ELSE "none"],
                                IF fixes THEN 0 ELSE 1, ~fixes))
           \/ Fatal(th, 0)

\* Lines 182-189 and 194: the fixes have been applied; if any was, the
\* workflow waits for the new deployment.
ErrFixDone ==
    \E th \in Threads, fix_count \in Counts, failed \in BOOLEAN :
        /\ workflows[th].phase = "errfixing"
        /\ \/ \E completes \in Reached :
                /\ Moves(th, [workflows[th] EXCEPT
                                 !.phase = IF Rerun(fix_count) THEN "wait2" ELSE "done",
                                 !.report = IF Rerun(fix_count) THEN @ ELSE "finished"])
                /\ Notes(th, Sent([observed EXCEPT
                                      !.refix = IF fix_count > 0 THEN "some" ELSE "zero",
                                      !.mutation_failed = @ \/ failed],
                                  IF Rerun(fix_count)
                                  THEN completes ELSE completes + 1,
                                  ~Rerun(fix_count)))
           \/ \E completes \in Reached : Fatal(th, completes)

\* Lines 186-194: the second wait_for_deployment returns.
Wait2 ==
    \E th \in Threads :
        /\ workflows[th].phase = "wait2"
        /\ Moves(th, [workflows[th] EXCEPT !.phase = "done", !.waits = @ + 1,
                                           !.report = "finished"])
        /\ Notes(th, Sent(observed, 1, TRUE))

NextFlow ==
    Submit \/ FetchCodebase \/ Chat \/ Parse \/ ApplyDone \/ Verify \/ FixDone
        \/ Wait \/ Evaluate \/ Analyze \/ ErrFixDone \/ Wait2

InitFlow == InitPoll

SpecFlow == InitFlow /\ [][NextFlow]_vars

\* Every request, every sleep and every model call of a workflow returns or
\* raises, so a workflow that can take a step takes one.
SpecFlowFair == SpecFlow /\ WF_vars(NextFlow)

\* ======================================================================
\* DeepSeekClient.validate_operations (deepseek_client.py), the leaf rules
\* ======================================================================
\* The keys of a record, those that hold null among them.
KeysWithNulls(op) == op.keys

\* Line 312: the keys left once the null fields are stripped.
CleanedKeys(op) == op.keys \ op.nulls

\* Lines 308 and 315-331: the field rule of a file mutation record.
LeafRule(op) ==
    /\ "operation" \in op.keys
    /\ LET t == op.operation
           has(ks) == ks \subseteq CleanedKeys(op)
       IN  CASE t \in {"CREATE_FILE", "OVERWRITE_FILE"} -> has({"path", "content"})
             [] t = "INSERT_LINES" -> has({"path", "line", "content"})
             [] t = "DELETE_FILE" -> has({"path"})
             [] t = "DELETE_LINES" -> has({"path", "start_line", "end_line"})
             [] OTHER -> FALSE


\* ======================================================================
\* DeepSeekClient: from the text of a reply to operations
\* (deepseek_client.py)
\* ======================================================================
\* A text is a sequence of pieces: the characters { } [ ] , the blank, the
\* fence (three backquotes), the words json, Here is and x, and three pieces of JSON text
\* without braces: the key "operations" with its opening bracket, the
\* members of a CREATE_FILE, and a comment member.
\* (Their quotation marks are written as apostrophes here.)
\* Further pieces: the members of a VERIFY_COMPLETE and of a NEEDS_RETRY, the
\* key "fixes" with its opening bracket, the tag of a MULTIPLE_OPERATIONS,
\* the number 7, and the operation names VERIFY_COMPLETE, NEEDS_RETRY and
\* CREATE_FILE as words of prose, and the members of a VERIFY_COMPLETE whose
\* message is null. A message is the text of its string, as a sequence of
\* pieces.
Fence == "<fence>"
OperationsKey == "'operations':["
CreateMembers == "'operation':'CREATE_FILE','path':'a.py','content':'x=1'"
CommentMember == "'comment':'the plan is to create the file named in the request'"
VerifyMembers == "'operation':'VERIFY_COMPLETE','message':'ok'"
VerifyNullMembers == "'operation':'VERIFY_COMPLETE','message':null"
RetryMembers == "'operation':'NEEDS_RETRY','message':'retry'"
FixesKey == "'fixes':["
MultipleTag == "'operation':'MULTIPLE_OPERATIONS'"

\* len() of a piece, in characters.
CharLen(c) ==
    CASE c = Fence -> 3
      [] c = "json" -> 4
      [] c = "Here is" -> 7
      [] c = OperationsKey -> 14
      [] c = CreateMembers -> 55
      [] c = CommentMember -> 63
      [] c \in {VerifyMembers, VerifyNullMembers} -> 44
      [] c = RetryMembers -> 43
      [] c = FixesKey -> 9
      [] c = MultipleTag -> 33
      [] c = "VERIFY_COMPLETE" -> 15
      [] c \in {"NEEDS_RETRY", "CREATE_FILE"} -> 11
      [] OTHER -> 1
RECURSIVE TextLen(_)
TextLen(text) == IF text = <<>> THEN 0 ELSE CharLen(Head(text)) + TextLen(Tail(text))

Least(S) == CHOOSE x \in S : \A y \in S : x <= y

\* A text kept with the blanks at its ends.
StripNothing(text) == text

\* str.strip(), and the blanks the pattern of line 124 leaves out on both
\* sides of its group.
RECURSIVE Strip(_)
Strip(text) ==
    IF text = <<>> THEN <<>>
    ELSE IF Head(text) = " " THEN Strip(Tail(text))
    ELSE IF text[Len(text)] = " " THEN Strip(SubSeq(text, 1, Len(text) - 1))
    ELSE text

\* Lines 124-126: code_block_pattern found from position pos on: the
\* content between a fence (with json after it or not) and the next fence,
\* without the blanks at its ends.
RECURSIVE CodeBlocks(_, _)
CodeBlocks(text, pos) ==
    LET opens == {i \in pos..Len(text) : text[i] = Fence} IN
    IF opens = {} THEN <<>>
    ELSE LET i == Least(opens)
             s == IF i < Len(text) /\ text[i + 1] = "json" THEN i + 2 ELSE i + 1
             closes == {j \in s..Len(text) : text[j] = Fence}
         IN  IF closes = {} THEN <<>>
             ELSE <<Strip(SubSeq(text, s, Least(closes) - 1))>>
                      \o CodeBlocks(text, Least(closes) + 1)

\* Lines 146-166: the scan from character i on with the stack depth and
\* start_index (0 for -1).
RECURSIVE extract_balanced_braces(_, _, _, _)
extract_balanced_braces(text, i, depth, start_index) ==
    IF i > Len(text) THEN <<>>
    ELSE IF text[i] = "{"
    THEN extract_balanced_braces(text, i + 1, depth + 1,
                                 IF depth = 0 THEN i ELSE start_index)
    ELSE IF text[i] = "}" /\ depth > 0
    THEN IF depth = 1
         THEN <<SubSeq(text, start_index, i)>>
                  \o extract_balanced_braces(text, i + 1, 0, 0)
         ELSE extract_balanced_braces(text, i + 1, depth - 1, start_index)
    ELSE extract_balanced_braces(text, i + 1, depth, start_index)

\* Lines 171-177: the phrases of the five patterns, matched ignoring case;
\* the pieces of a text that hold the phrase of pattern p.
NumPatterns == 5
HasKeyword(p, c) ==
    CASE p = 1 -> c = "Here is"
      [] p = 4 -> c \in {OperationsKey, CreateMembers, VerifyMembers, RetryMembers,
                          MultipleTag, VerifyNullMembers}
      [] p = 5 -> c = "json"
      [] OTHER -> FALSE

\* A keyword pattern whose closing brace is matched greedily.
LastClose(closes) == CHOOSE k \in closes : \A y \in closes : y <= k

\* The closing brace the lazy end of a pattern stops at.
FirstClose(closes) == Least(closes)

\* Lines 179-186: re.findall of pattern p from position pos on, each match
\* cut down to its part from the brace on.
RECURSIVE KeywordMatches(_, _, _)
KeywordMatches(text, p, pos) ==
    LET starts == {i \in pos..Len(text) : HasKeyword(p, text[i])} IN
    IF starts = {} THEN <<>>
    ELSE LET opens == {j \in Least(starts)..Len(text) : text[j] = "{"} IN
         IF opens = {} THEN <<>>
         ELSE LET closes == {k \in Least(opens)..Len(text) : text[k] = "}"} IN
              IF closes = {} THEN <<>>
              ELSE <<SubSeq(text, Least(opens), FirstClose(closes))>>
                       \o KeywordMatches(text, p, FirstClose(closes) + 1)

\* Lines 168-188.
RECURSIVE extract_after_keywords(_, _)
extract_after_keywords(text, p) ==
    IF p > NumPatterns THEN <<>>
    ELSE KeywordMatches(text, p, 1) \o extract_after_keywords(text, p + 1)

\* A list returned with its duplicates.
KeepAll(candidates) == candidates

\* Lines 137-142: the loop appends a candidate exactly when none of the
\* candidates before it is the same string (then it is not in seen).
Unique(candidates) ==
    LET appended == {i \in 1..Len(candidates) :
                        \A j \in 1..(i - 1) : candidates[j] # candidates[i]}
    IN  [k \in 1..Cardinality(appended) |->
            candidates[CHOOSE i \in appended :
                           Cardinality({j \in appended : j <= i}) = k]]

\* Lines 119-144: candidates is the one list the three patterns extend in
\* turn; it is bound once, as the local variable is, and then made unique.
extract_json_objects(text) ==
    CHOOSE unique_candidates_ \in
        {Unique(candidates) :
            candidates \in {CodeBlocks(text, 1)
                               \o extract_balanced_braces(text, 1, 0, 0)
                               \o extract_after_keywords(text, 1)}} : TRUE

\* ---- json.loads on a text of these pieces
\* A parsed value is written as an operation record: a mapping by its keys
\* and values, a list as a record that is no mapping and holds its items.
\* None stands for a text that does not parse.
ParsedNone == Record(None, {}, {}, "", <<>>, 0, 0, 0, <<>>)
EmptyMapping == Record(NoField, {}, {}, "", <<>>, 0, 0, 0, <<>>)
ParsedList(items) == Record("list", {}, {}, "", <<>>, 0, 0, 0, items)
ParsedNumber == Record("number", {}, {}, "", <<>>, 0, 0, 0, <<>>)
IsList(v) == v.operation = "list" /\ v.keys = {}
IsMapping(v) == v # ParsedNone /\ ~IsList(v) /\ v # ParsedNumber

\* A mapping with one more member; a key given twice keeps its last value.
WithCreate(obj) ==
    [obj EXCEPT !.keys = @ \cup {"operation", "path", "content"},
                !.nulls = @ \ {"operation", "path", "content"},
                !.operation = "CREATE_FILE", !.path = "a.py", !.content = <<"x=1">>]
WithComment(obj) == [obj EXCEPT !.keys = @ \cup {"comment"}]
WithOperations(obj, items) ==
    [obj EXCEPT !.keys = @ \cup {"operations"}, !.operations = items]
WithVerify(obj) ==
    [obj EXCEPT !.keys = @ \cup {"operation", "message"},
                !.nulls = @ \ {"operation", "message"},
                !.operation = "VERIFY_COMPLETE", !.message = <<"ok">>]
WithVerifyNull(obj) ==
    [obj EXCEPT !.keys = @ \cup {"operation", "message"},
                !.nulls = (@ \ {"operation"}) \cup {"message"},
                !.operation = "VERIFY_COMPLETE", !.message = <<>>]
WithRetry(obj) ==
    [obj EXCEPT !.keys = @ \cup {"operation", "message"},
                !.nulls = @ \ {"operation", "message"},
                !.operation = "NEEDS_RETRY", !.message = <<"retry">>]
WithMultiple(obj) ==
    [obj EXCEPT !.keys = @ \cup {"operation"}, !.operation = "MULTIPLE_OPERATIONS"]
WithFixes(obj, items) == [obj EXCEPT !.keys = @ \cup {"fixes"}, !.fixes = items]

RECURSIVE SkipBlanks(_, _)
SkipBlanks(text, i) ==
    IF i <= Len(text) /\ text[i] = " " THEN SkipBlanks(text, i + 1) ELSE i
At(text, i) == IF i <= Len(text) THEN text[i] ELSE ""
RECURSIVE SkipDigits(_, _)
SkipDigits(text, i) ==
    IF i <= Len(text) /\ text[i] = "7" THEN SkipDigits(text, i + 1) ELSE i

NoParse == [ok |-> FALSE, val |-> ParsedNone, next |-> 0]
Parsed(v, next) == [ok |-> TRUE, val |-> v, next |-> next]

\* The value that starts at piece i, the members of an object from piece i
\* on, and the items of a list from piece i on.
RECURSIVE ParseValue(_, _), ParseMembers(_, _, _), ParseItems(_, _, _)
ParseValue(text, i) ==
    IF At(text, i) = "{"
    THEN LET j == SkipBlanks(text, i + 1) IN
         IF At(text, j) = "}" THEN Parsed(EmptyMapping, j + 1)
         ELSE ParseMembers(text, j, EmptyMapping)
    ELSE IF At(text, i) = "["
    THEN ParseItems(text, SkipBlanks(text, i + 1), <<>>)
    ELSE IF At(text, i) = "7" THEN Parsed(ParsedNumber, SkipDigits(text, i + 1))
    ELSE NoParse
ParseMembers(text, i, obj) ==
    LET c == At(text, i)
        m == CASE c = CreateMembers -> Parsed(WithCreate(obj), i + 1)
               [] c = CommentMember -> Parsed(WithComment(obj), i + 1)
               [] c = VerifyMembers -> Parsed(WithVerify(obj), i + 1)
               [] c = VerifyNullMembers -> Parsed(WithVerifyNull(obj), i + 1)
               [] c = RetryMembers -> Parsed(WithRetry(obj), i + 1)
               [] c = MultipleTag -> Parsed(WithMultiple(obj), i + 1)
               [] c = OperationsKey ->
                      LET l == ParseItems(text, SkipBlanks(text, i + 1), <<>>) IN
                      IF l.ok THEN Parsed(WithOperations(obj, l.val.operations), l.next)
                      ELSE NoParse
               [] c = FixesKey ->
                      LET l == ParseItems(text, SkipBlanks(text, i + 1), <<>>) IN
                      IF l.ok THEN Parsed(WithFixes(obj, l.val.operations), l.next)
                      ELSE NoParse
               [] OTHER -> NoParse
        k == SkipBlanks(text, m.next)
    IN  IF ~m.ok THEN NoParse
        ELSE IF At(text, k) = "}" THEN Parsed(m.val, k + 1)
        ELSE IF At(text, k) = "," THEN ParseMembers(text, SkipBlanks(text, k + 1), m.val)
        ELSE NoParse
ParseItems(text, i, items) ==
    IF items = <<>> /\ At(text, i) = "]" THEN Parsed(ParsedList(<<>>), i + 1)
    ELSE LET v == ParseValue(text, i)
             k == SkipBlanks(text, v.next)
         IN  IF ~v.ok THEN NoParse
             ELSE IF At(text, k) = "]"
             THEN Parsed(ParsedList(Append(items, v.val)), k + 1)
             ELSE IF At(text, k) = ","
             THEN ParseItems(text, SkipBlanks(text, k + 1), Append(items, v.val))
             ELSE NoParse

\* json.loads: one value with nothing but blanks around it, or an error
\* (None here).
json_loads(text) ==
    LET v == ParseValue(text, SkipBlanks(text, 1)) IN
    IF v.ok /\ SkipBlanks(text, v.next) > Len(text) THEN v.val ELSE ParsedNone

\* Lines 205-206: a comma before a closing brace, and then before a closing
\* bracket, is taken out with the blanks after it.
RECURSIVE FixTrailing(_, _)
FixTrailing(text, close) ==
    IF text = <<>> THEN <<>>
    ELSE IF Head(text) = "," /\ At(text, SkipBlanks(text, 2)) = close
    THEN FixTrailing(SubSeq(text, SkipBlanks(text, 2), Len(text)), close)
    ELSE <<Head(text)>> \o FixTrailing(Tail(text), close)

\* Lines 211-222: the longest substring from a { to a } that parses, the
\* leftmost of them among those of one length.
ParsingSpans(text) ==
    {s \in (1..Len(text)) \X (1..Len(text)) :
        /\ s[1] <= s[2]
        /\ text[s[1]] = "{" /\ text[s[2]] = "}"
        /\ json_loads(SubSeq(text, s[1], s[2])) # ParsedNone}
LongestObject(text) ==
    LET len(s) == TextLen(SubSeq(text, s[1], s[2])) IN
    CHOOSE parsed \in
        {IF spans = {} THEN ParsedNone
         ELSE CHOOSE v \in
                  {json_loads(SubSeq(text, best[1], best[2])) :
                      best \in {s \in spans : \A o \in spans :
                                    \/ len(o) < len(s)
                                    \/ len(o) = len(s) /\ s[1] <= o[1]}} : TRUE :
            spans \in {ParsingSpans(text)}} : TRUE

\* Lines 190-224; json_str is stripped once (line 194) and each attempt
\* parses once.
SafeParseStripped(text) ==
    CHOOSE parsed \in
        {IF attempt[1] # ParsedNone THEN attempt[1]
         ELSE IF attempt[2] # ParsedNone THEN attempt[2]
         ELSE LongestObject(text) :
            attempt \in {<<json_loads(text),
                           json_loads(FixTrailing(FixTrailing(text, "}"), "]"))>>}} :
        TRUE
safe_json_parse(json_str) ==
    CHOOSE parsed \in {SafeParseStripped(text) : text \in {Strip(json_str)}} : TRUE

\* bool() of a parsed value: None, {} and [] are false.
Truthy(v) ==
    IF IsList(v) THEN v.operations # <<>> ELSE v = ParsedNumber \/ v.keys # {}

\* A list taken with all its items.
AnyItem(item) == TRUE

\* Line 272: the items of a root-level list that are taken.
IsOperationItem(item) == IsMapping(item) /\ "operation" \in item.keys

\* Lines 256-275.
extract_operations_from_object(obj) ==
    IF IsMapping(obj) /\ "operation" \in obj.keys THEN <<obj>>
    ELSE IF IsMapping(obj) /\ "operations" \in obj.keys THEN obj.operations
    ELSE IF IsList(obj)
    THEN SelectSeq(obj.operations, LAMBDA item : IsOperationItem(item))
    ELSE <<>>

\* Lines 237-243: the operations of the first candidate that parses to a
\* true value with operations.
CandidateOperations(candidate) ==
    CHOOSE ops \in
        {IF Truthy(parsed) THEN extract_operations_from_object(parsed) ELSE <<>> :
            parsed \in {safe_json_parse(candidate)}} : TRUE
FirstOperations(json_candidates) ==
    CHOOSE ops \in
        {IF \A i \in DOMAIN found : found[i] = <<>> THEN <<>>
         ELSE found[Least({i \in DOMAIN found : found[i] # <<>>})] :
            found \in {[i \in 1..Len(json_candidates) |->
                           CandidateOperations(json_candidates[i])]}} : TRUE

\* op_type in response, for the pieces of these texts.
Mentions(op_type, c) ==
    CASE op_type = "VERIFY_COMPLETE" ->
           c \in {"VERIFY_COMPLETE", VerifyMembers, VerifyNullMembers}
      [] op_type = "NEEDS_RETRY" -> c \in {"NEEDS_RETRY", RetryMembers}
      [] op_type = "CREATE_FILE" -> c \in {"CREATE_FILE", CreateMembers}
      [] op_type = "MULTIPLE_OPERATIONS" -> c = MultipleTag
      [] OTHER -> FALSE

\* Lines 280-284: the names looked for, in the order of the list.
operation_types ==
    <<"CREATE_FILE", "OVERWRITE_FILE", "INSERT_LINES", "DELETE_FILE", "DELETE_LINES",
      "MULTIPLE_OPERATIONS", "VERIFY_COMPLETE", "NEEDS_RETRY">>

\* A fallback that makes an operation of every name it finds.
EveryName == {operation_types[i] : i \in DOMAIN operation_types}

\* Line 291: the names an operation is made of.
SynthesizedNames == {"VERIFY_COMPLETE", "NEEDS_RETRY"}

\* Lines 277-297: an operation with the whole response as its message for
\* each of these names the response holds.
parse_conversational_operations(response_text) ==
    LET found == SelectSeq(operation_types,
                     LAMBDA op_type :
                         /\ \E i \in 1..Len(response_text) :
                                Mentions(op_type, response_text[i])
                         /\ op_type \in SynthesizedNames)
    IN  [k \in 1..Len(found) |->
            [Record(found[k], {"operation", "message"}, {}, "", <<>>, 0, 0, 0, <<>>)
                EXCEPT !.message = response_text]]

\* Lines 226-254.
parse_operations(text) ==
    CHOOSE ops \in
        {IF Truthy(direct_parse) THEN extract_operations_from_object(direct_parse)
         ELSE CHOOSE found \in
                  {IF operations_found # <<>> THEN operations_found
                   ELSE parse_conversational_operations(text) :
                      operations_found \in
                          {FirstOperations(json_candidates) :
                              json_candidates \in {extract_json_objects(text)}}} :
                  TRUE :
            direct_parse \in {safe_json_parse(text)}} : TRUE

\* A nested list that counts as soon as the list given is not empty.
NestedKeptRaw(op, nested_ops) == op.operations # <<>>

\* Line 337: if nested_ops.
NestedKept(op, nested_ops) == nested_ops # <<>>

\* A MULTIPLE_OPERATIONS kept with the list it came with.
WithNestedRaw(cleaned_op, nested_ops) == cleaned_op

\* Line 338: cleaned_op["operations"] = nested_ops.
WithNested(cleaned_op, nested_ops) == [cleaned_op EXCEPT !.operations = nested_ops]

RECURSIVE validate_operations(_)

\* A signal kept with its fixes validated like nested operations.
SignalFixesValidated(cleaned_op) ==
    [cleaned_op EXCEPT !.fixes = validate_operations(@)]

\* Lines 341-342: a signal is appended as it is.
SignalKept(cleaned_op) == cleaned_op

\* Lines 299-344. (The value under "operations" is a list in every record
\* drawn here.)
validate_operations(ops) ==
    IF ops = <<>> THEN <<>>
    ELSE LET op == Head(ops)
             rest == validate_operations(Tail(ops))
             cleaned_op == [op EXCEPT !.keys = CleanedKeys(op), !.nulls = {}]
             operation_type == IF "operation" \in cleaned_op.keys
                               THEN op.operation ELSE None
             nested_ops == validate_operations(op.operations)
         IN  IF ~IsMapping(op) \/ "operation" \notin op.keys THEN rest
             ELSE IF operation_type = "MULTIPLE_OPERATIONS"
             THEN IF "operations" \in cleaned_op.keys /\ NestedKept(op, nested_ops)
                  THEN <<WithNested(cleaned_op, nested_ops)>> \o rest
                  ELSE rest
             ELSE IF operation_type \in {"VERIFY_COMPLETE", "NEEDS_RETRY"}
             THEN <<SignalKept(cleaned_op)>> \o rest
             ELSE IF "operation" \in cleaned_op.keys /\ LeafRule(op)
             THEN <<cleaned_op>> \o rest
             ELSE rest

\* ---- the lists validate_operations is given
MaxRawNodes == 4        \* most records in one list, nested ones included
MaxRawDepth == 2        \* deepest nesting of MULTIPLE_OPERATIONS

\* Every way of leaving out keys of a record and of holding null under
\* keys it has.
Variants(op) ==
    UNION {{[op EXCEPT !.keys = ks, !.nulls = ns] : ns \in SUBSET ks} :
              ks \in SUBSET op.keys}

\* One record of each file mutation kind with every such variant, the
\* same for a MULTIPLE_OPERATIONS and for a record of a kind the client does
\* not know, and two items that are no mapping.
UnknownKind ==
    Record("RENAME_FILE", {"operation", "path"}, {}, "a.py", <<>>, 0, 0, 0, <<>>)
FieldVariants ==
    UNION {Variants(op) :
              op \in {CreateFile("a.py", <<"x">>), OverwriteFile("a.py", <<"y">>),
                      InsertLines("a.py", 1, <<"z">>), DeleteFile("a.py"),
                      DeleteLines("a.py", 1, 1), UnknownKind,
                      MultipleOperations(<<DeleteFile("a.py")>>)}}
NonMappings == {ParsedNone, ParsedList(<<DeleteFile("a.py")>>)}

\* The records lists and trees are built of: a valid one, one with a null
\* field, one without its tag, a signal, an item that is no mapping.
RawOps ==
    {DeleteFile("a.py"),
     [CreateFile("b.py", <<"x">>) EXCEPT !.nulls = {"content"}],
     [DeleteFile("b.py") EXCEPT !.keys = {"path"}],
     VerifyComplete,
     ParsedNone}
RECURSIVE RawTrees(_, _), RawListsOf(_, _)
RawTrees(d, n) ==
    IF n = 1
    THEN RawOps \cup (IF d > 0 THEN {MultipleOperations(<<>>)} ELSE {})
    ELSE IF d > 0 THEN {MultipleOperations(l) : l \in RawListsOf(d - 1, n - 1)}
    ELSE {}
RawListsOf(d, n) ==
    IF n = 0 THEN {<<>>}
    ELSE UNION {LET first == RawTrees(d, k)
                    rest == RawListsOf(d, n - k)
                IN  {<<tr>> \o l : tr \in first, l \in rest} : k \in 1..n}
RawLists ==
    UNION {RawListsOf(MaxRawDepth, n) : n \in 0..MaxRawNodes}
    \cup {<<r>> : r \in FieldVariants \cup NonMappings}
    \cup {<<DeleteFile("b.py"), r, DeleteFile("a.py")>> : r \in FieldVariants}

\* The caller hands a list over.
GivenOperations ==
    /\ vpc = "idle"
    /\ \E ops \in RawLists : raw_operations' = ops
    /\ vpc' = "given"
    /\ UNCHANGED <<valid_operations, revalidated>>
    /\ UNCHANGED <<pollVars, applyVars, editVars, flowVars, statusVars, parseVars>>

\* Lines 299-344: validate_operations(operations).
ValidateOperations ==
    /\ vpc = "given"
    /\ valid_operations' = validate_operations(raw_operations)
    /\ vpc' = "validated"
    /\ UNCHANGED <<raw_operations, revalidated>>
    /\ UNCHANGED <<pollVars, applyVars, editVars, flowVars, statusVars, parseVars>>

\* validate_operations called on a list it returned.
ValidateAgain ==
    /\ vpc = "validated"
    /\ revalidated' = validate_operations(valid_operations)
    /\ vpc' = "revalidated"
    /\ UNCHANGED <<raw_operations, valid_operations>>
    /\ UNCHANGED <<pollVars, applyVars, editVars, flowVars, statusVars, parseVars>>

NextValidate == GivenOperations \/ ValidateOperations \/ ValidateAgain

InitValidate == InitPoll

SpecValidate == InitValidate /\ [][NextValidate]_vars

\* ---- the replies the client is given
MaxSegments == 2        \* most segments of one reply

\* JSON payloads: an object with a list of one CREATE_FILE, a single
\* CREATE_FILE, the same with a trailing comma, an object that holds a
\* comment only, and the empty object.
OperationsObject == <<"{", OperationsKey, "{", CreateMembers, "}", "]", "}">>
SingleObject == <<"{", CreateMembers, "}">>
TrailingCommaObject == <<"{", CreateMembers, ",", "}">>
CommentObject == <<"{", CommentMember, "}">>
Payloads == {OperationsObject, SingleObject, TrailingCommaObject, CommentObject,
             <<"{", "}">>}

\* A fenced block, annotated json or not.
Tags == {<<>>, <<"json">>}
Fenced(tag, body) == <<Fence>> \o tag \o <<" ">> \o body \o <<" ">> \o <<Fence>>

\* The segments of a reply: a payload, bare or fenced, a word, or a stray
\* closing brace; a reply is up to MaxSegments of them with blanks between.
Segments ==
    Payloads \cup {Fenced(tag, body) : tag \in Tags, body \in Payloads}
        \cup {<<"x">>, <<"Here is">>, <<"json">>, <<"}">>}
RECURSIVE Replies(_)
Replies(n) ==
    IF n = 0 THEN {<<>>}
    ELSE Replies(n - 1)
         \cup {r \o (IF r = <<>> THEN <<>> ELSE <<" ">>) \o s :
                  r \in Replies(n - 1) \ {<<>>}, s \in Segments}
         \cup Segments
\* A signal as the prompt asks for it: VERIFY_COMPLETE with its message,
\* NEEDS_RETRY with two fixes of which the second has no operation tag, and
\* NEEDS_RETRY with a MULTIPLE_OPERATIONS as its fix; and a VERIFY_COMPLETE
\* whose message is null.
VerifyObject == <<"{", VerifyMembers, "}">>
VerifyNullObject == <<"{", VerifyNullMembers, "}">>
RetryObject ==
    <<"{", RetryMembers, ",", FixesKey, "{", CreateMembers, "}", ",",
      "{", CommentMember, "}", "]", "}">>
RetryNestedObject ==
    <<"{", RetryMembers, ",", FixesKey, "{", MultipleTag, ",", OperationsKey,
      "{", CreateMembers, "}", "]", "}", "]", "}">>
SignalPayloads == {VerifyObject, RetryObject, RetryNestedObject, VerifyNullObject}
SignalReplies ==
    SignalPayloads
    \cup {<<" ">> \o body \o <<" ">> : body \in SignalPayloads}
    \cup {Fenced(tag, body) : tag \in Tags, body \in SignalPayloads}
    \cup {<<"Here is", " ">> \o Fenced(tag, body) : tag \in Tags, body \in SignalPayloads}

\* Prose of one or two words, operation names among them, and payloads cut
\* off before their end.
Words == {"x", "VERIFY_COMPLETE", "NEEDS_RETRY", "CREATE_FILE"}
Truncated ==
    {<<"{", VerifyMembers>>, <<"{", CreateMembers>>,
     <<"{", OperationsKey, "{", CreateMembers, "}", ",">>,
     <<"{", RetryMembers, ",", FixesKey, "{", CreateMembers, "}">>}
ProseReplies ==
    {<<w>> : w \in Words} \cup {<<" ", w, " ">> : w \in Words}
    \cup {<<v, " ", w>> : v \in Words, w \in Words}
    \cup {<<w, " ">> \o body : w \in Words, body \in {CommentObject, <<"{", "}">>}}
    \cup Truncated \cup {<<w, " ">> \o body : w \in Words, body \in Truncated}

\* JSON that is no operation mapping: a number, lists of numbers and of
\* mappings without a tag, and a mapping whose operations are numbers.
ShapeReplies ==
    {<<"7">>, <<"[", "]">>, <<"[", "7", "]">>, <<"[", "7", ",", "7", "]">>,
     <<"[", "{", CommentMember, "}", ",", "7", "]">>,
     <<"{", OperationsKey, "7", "]", "}">>}

Responses == Replies(MaxSegments) \cup SignalReplies \cup ProseReplies \cup ShapeReplies

\* What the client makes of each of these replies: the lists of
\* extract_json_objects (lines 119-144) and the result of parse_operations
\* (lines 226-254).
Extraction ==
    {[text |-> text,
      code_matches |-> CodeBlocks(text, 1),
      brace_objects |-> extract_balanced_braces(text, 1, 0, 0),
      keyword_objects |-> extract_after_keywords(text, 1),
      unique_candidates |-> extract_json_objects(text)] : text \in Responses}
Operations ==
    {[text |-> text, operations |-> parse_operations(text)] : text \in Responses}

\* deepseek.chat returns the text of a reply (lines 96-115).
Reply ==
    /\ ppc = "idle"
    /\ \E text \in Responses : response' = text
    /\ ppc' = "received"
    /\ UNCHANGED <<code_matches, brace_objects, keyword_objects, unique_candidates,
                   parsed_operations, validated_operations>>
    /\ UNCHANGED <<pollVars, applyVars, editVars, flowVars, statusVars, validateVars>>

\* Lines 119-144: extract_json_objects(response).
ExtractJsonObjects ==
    /\ ppc = "received"
    /\ \E e \in Extraction :
        /\ e.text = response
        /\ code_matches' = e.code_matches
        /\ brace_objects' = e.brace_objects
        /\ keyword_objects' = e.keyword_objects
        /\ unique_candidates' = e.unique_candidates
    /\ ppc' = "extracted"
    /\ UNCHANGED <<response, parsed_operations, validated_operations>>
    /\ UNCHANGED <<pollVars, applyVars, editVars, flowVars, statusVars, validateVars>>

\* Lines 226-254: parse_operations(response).
ParseOperations ==
    /\ ppc = "extracted"
    /\ \E o \in Operations : o.text = response /\ parsed_operations' = o.operations
    /\ ppc' = "parsed"
    /\ UNCHANGED <<response, code_matches, brace_objects, keyword_objects,
                   unique_candidates, validated_operations>>
    /\ UNCHANGED <<pollVars, applyVars, editVars, flowVars, statusVars, validateVars>>

\* Lines 346-349: get_validated_operations validates what parse_operations
\* returned.
GetValidatedOperations ==
    /\ ppc = "parsed"
    /\ validated_operations' = validate_operations(parsed_operations)
    /\ ppc' = "validated"
    /\ UNCHANGED <<response, code_matches, brace_objects, keyword_objects,
                   unique_candidates, parsed_operations>>
    /\ UNCHANGED <<pollVars, applyVars, editVars, flowVars, statusVars, validateVars>>

NextParse == Reply \/ ExtractJsonObjects \/ ParseOperations \/ GetValidatedOperations

InitParse == InitPoll

SpecParse == InitParse /\ [][NextParse]_vars

\* ---------------------------------------------------------------- claims
TimeoutResult(id) == [status |-> "TIMEOUT", logs |-> <<TimeoutMessage>>, id |-> id]

\* C1: once a poll has returned a terminal status, the call fetches the logs
\* of that deployment and returns (status, log messages, id) without polling
\* again: it is fetching logs or has returned that status and id.
C1_ReturnsAtFirstTerminal ==
    sawTerminal =>
        /\ pc \in {"logs", "done"}
        /\ pc = "done" =>
              /\ result.status = last_status
              /\ result.status \in terminal_statuses
              /\ result.id = last_deployment_id

\* C2: the call returns TIMEOUT only in runs in which no status poll returned
\* a terminal status, whatever the log retrieval returned or raised.
C2_TimeoutOnlyWithoutTerminal ==
    (pc = "done" /\ result.status = "TIMEOUT") => ~sawTerminal

\* C3: a status query step never ends the call and never raises to the
\* caller; when it ends the poll without a terminal status, one poll-interval
\* sleep follows and the loop goes on. If no poll ever yields a deployment,
\* the call returns (TIMEOUT, [timeout message], initial_deployment_id), and
\* only once the timeout has elapsed.
C3_FailedQueryStep ==
    pc = "status" =>
        /\ pc' \in {"status", "loop", "logs"}
        /\ result' = NoResult
        /\ pc' = "status" => (qi' = qi + 1 /\ elapsed' - elapsed \in QueryTimes)
        /\ pc' = "loop" =>
              elapsed' - elapsed \in {d + DEPLOYMENT_POLL_INTERVAL : d \in QueryTimes}
        /\ pc' = "logs" => IsTerminal(last_status')
C3_NoDeploymentResult ==
    (pc = "done" /\ ~sawDeployment) =>
        /\ result = TimeoutResult(initial_deployment_id)
        /\ elapsed >= DEPLOYMENT_TIMEOUT
        /\ poll_count >= 1
C3_QueryFailureSwallowed ==
    [][C3_FailedQueryStep]_vars /\ []C3_NoDeploymentResult
C3_Witness ==
    /\ pc = "done"
    /\ ~sawDeployment
    /\ initial_deployment_id = None
    /\ result = TimeoutResult(None)
    /\ poll_count > 1

\* C4: the call always eventually returns, with a terminal status or with
\* TIMEOUT, and no poll begins once elapsed >= DEPLOYMENT_TIMEOUT.
C4_NoPollAfterTimeout ==
    (pc = "loop" /\ elapsed >= DEPLOYMENT_TIMEOUT) =>
        (pc' = "done" /\ poll_count' = poll_count /\ result'.status = "TIMEOUT")
C4_Outcome ==
    pc = "done" => result.status \in terminal_statuses \cup {"TIMEOUT"}
C4_AlwaysReturns ==
    <>(pc = "done") /\ [][C4_NoPollAfterTimeout]_vars /\ []C4_Outcome
C4_Witness ==
    /\ pc = "done"
    /\ result.status = "TIMEOUT"
    /\ sawDeployment
    /\ ~sawTerminal
    /\ elapsed > DEPLOYMENT_TIMEOUT

\* ---- histories of the applier
OpsOf(hist) == [i \in 1..Len(hist) |-> hist[i].op]
IsPrefix(a, b) == Len(a) <= Len(b) /\ a = SubSeq(b, 1, Len(a))
Successes(hist) == Cardinality({i \in 1..Len(hist) : hist[i].ok})

\* The file mutations of a list in sequence order, nested lists expanded in
\* place; VERIFY_COMPLETE ends its list, NEEDS_RETRY is passed over.
RECURSIVE InOrder(_)
InOrder(ops) ==
    IF Len(ops) = 0 THEN <<>>
    ELSE LET t == OpType(ops[1]) IN
         CASE t = "VERIFY_COMPLETE" -> <<>>
           [] t = "NEEDS_RETRY" -> InOrder(Tail(ops))
           [] t = "MULTIPLE_OPERATIONS" ->
                InOrder(ops[1].operations) \o InOrder(Tail(ops))
           [] OTHER -> <<ops[1]>> \o InOrder(Tail(ops))

\* The tree a history of attempts leaves, each successful mutation computed
\* on the tree left by the ones before it.
RECURSIVE Replay(_, _)
Replay(tree, hist) ==
    IF Len(hist) = 0 THEN tree
    ELSE Replay(IF hist[1].ok THEN ApplyLeaf(tree, hist[1].op).files ELSE tree,
                Tail(hist))

RECURSIVE SumCounts(_)
SumCounts(frames) ==
    IF Len(frames) = 0 THEN 0
    ELSE frames[1].applied_count + SumCounts(Tail(frames))
TotalCount == returned_count + SumCounts(stack)

\* C5: the mutations of a list are attempted in sequence order, nested
\* lists expanded in place, and each one is computed on the remote tree the
\* ones before it have left.
C5_SequentialFresh ==
    /\ IsPrefix(OpsOf(applied), InOrder(operations))
    /\ apc = "returned" => OpsOf(applied) = InOrder(operations)
    /\ files = Replay(InitialFiles, applied)
    /\ \A i \in 1..Len(applied) :
          applied[i].ok =>
              ApplyLeaf(Replay(InitialFiles, SubSeq(applied, 1, i - 1)),
                        applied[i].op).ok
C5_Witness ==
    /\ apc = "returned"
    /\ Len(applied) = 2
    /\ \A i \in 1..2 : applied[i].ok /\ OpType(applied[i].op) = "INSERT_LINES"
    /\ applied[2].op.line = 3
    /\ Len(Split(files["a.py"].content)) = 5

\* C6: a failed mutation leaves the tree as the mutations before it made
\* it, and the count apply_operations_recursive returns is the number of
\* mutations that succeeded, at any depth.
C6_FailureKeepsTree ==
    (Len(applied') > Len(applied) /\ ~applied'[Len(applied')].ok) => files' = files
C6_Count ==
    /\ TotalCount = Successes(applied)
    /\ apc = "returned" => returned_count = Successes(applied)
C6_NotTransactional == [][C6_FailureKeepsTree]_vars /\ []C6_Count
C6_Witness ==
    /\ apc = "returned"
    /\ Len(operations) = 1
    /\ OpType(operations[1]) = "MULTIPLE_OPERATIONS"
    /\ Len(applied) = 2
    /\ applied[1].ok /\ ~applied[2].ok
    /\ returned_count = 1
    /\ files # InitialFiles

\* C7 (as claimed): once a mutation of a list has failed on a missing file or
\* a rejected write, no later operation of that list is applied.
C7_BranchHalts ==
    [][(AtOperation /\ Top.conflict) =>
          ~(Len(applied') > Len(applied) /\ applied'[Len(applied')].ok)]_vars

\* C7 (amended): a mutation that fails is reported by an error event naming
\* its kind and leaves the tree unchanged, and the list goes on with the
\* operation after it.
C7_MutationStep ==
    (AtOperation /\ Len(applied') > Len(applied)) =>
        LET a == applied'[Len(applied')] IN
        /\ Len(stack') = Len(stack)
        /\ stack'[Len(stack)].ops = Top.ops
        /\ stack'[Len(stack)].i = Top.i + 1
        /\ apc' = "applying"
        /\ ~a.ok =>
              /\ files' = files
              /\ message_queue'[Len(message_queue')] = Event("error", OpType(a.op), "-")
C7_FailureSurfacedListGoesOn == [][C7_MutationStep]_vars
C7_Witness ==
    /\ apc = "returned"
    /\ Len(operations) = 1
    /\ OpType(operations[1]) = "MULTIPLE_OPERATIONS"
    /\ Len(applied) = 2
    /\ ~applied[1].ok /\ applied[1].why \in {"missing", "conflict"}
    /\ applied[2].ok

\* C8: apply_operation on a MULTIPLE_OPERATIONS record applies every child
\* of its list in order, nested lists too (seen where no child raises).
RECURSIVE AllLeaves(_)
AllLeaves(ops) ==
    IF Len(ops) = 0 THEN <<>>
    ELSE (IF OpType(ops[1]) = "MULTIPLE_OPERATIONS"
          THEN AllLeaves(ops[1].operations) ELSE <<ops[1]>>)
         \o AllLeaves(Tail(ops))
C8_AppliesEveryChild ==
    (apc = "direct" /\ \A i \in 1..Len(applied) : applied[i].ok) =>
        OpsOf(applied) = AllLeaves(operations)

\* C9: github.apply_operation is never called with VERIFY_COMPLETE or
\* NEEDS_RETRY, at any depth, and the step that handles such an operation
\* changes neither the tree nor the applied count.
C9_SignalStep ==
    (AtOperation /\ OpType(operation) \in {"VERIFY_COMPLETE", "NEEDS_RETRY"}) =>
        /\ files' = files
        /\ applied' = applied
        /\ TotalCount' = TotalCount
C9_NeverApplied ==
    \A i \in 1..Len(applied) :
        OpType(applied[i].op) \notin {"VERIFY_COMPLETE", "NEEDS_RETRY"}
C10_OnlyValidatedApplied ==
    \A i \in 1..Len(applied) : LeafRule(applied[i].op)

\* ---- the audit trail of the applier
\* The events of a queue that announce an attempt, and those that report the
\* outcome of one (the events of signals and of nested lists are other ones).
RECURSIVE SelectEvents(_, _)
SelectEvents(q, types) ==
    IF Len(q) = 0 THEN <<>>
    ELSE (IF q[1].type \in types
             /\ q[1].kind \notin {"nested", "NEEDS_RETRY", "-"}
          THEN <<q[1]>> ELSE <<>>) \o SelectEvents(Tail(q), types)

\* C11: every attempted mutation puts an event naming its kind and path,
\* then exactly one outcome event (operation_success if it succeeded, error
\* if it failed); the outcome events of the queue are those of the attempts,
\* one each, in application order.
C11_AttemptStep ==
    Len(applied') > Len(applied) =>
        LET a == applied'[Len(applied')] IN
        /\ Len(applied') = Len(applied) + 1
        /\ Len(message_queue') = Len(message_queue) + 2
        /\ SubSeq(message_queue', 1, Len(message_queue)) = message_queue
        /\ message_queue'[Len(message_queue) + 1] =
               [type |-> "operation", kind |-> OpType(a.op),
                path |-> IF "path" \in a.op.keys THEN a.op.path ELSE "N/A"]
        /\ message_queue'[Len(message_queue) + 2].type =
               (IF a.ok THEN "operation_success" ELSE "error")
        /\ message_queue'[Len(message_queue) + 2].kind = OpType(a.op)
C11_OneOutcomePerAttempt ==
    LET outs == SelectEvents(message_queue, {"operation_success", "error"})
        anns == SelectEvents(message_queue, {"operation"})
    IN  /\ Len(outs) = Len(applied)
        /\ Len(anns) = Len(applied)
        /\ \A i \in 1..Len(applied) :
              /\ outs[i].kind = OpType(applied[i].op)
              /\ outs[i].type = (IF applied[i].ok THEN "operation_success" ELSE "error")
              /\ anns[i].kind = OpType(applied[i].op)
C11_AuditTrail == [][C11_AttemptStep]_vars /\ []C11_OneOutcomePerAttempt
C11_Witness ==
    /\ apc = "returned"
    /\ returned_count = 1
    /\ Len(applied) = 2
    /\ ~applied[1].ok /\ applied[2].ok
    /\ Len(message_queue) = 4
    /\ message_queue[2].type = "error"
    /\ message_queue[4].type = "operation_success"

\* ---- the steps of a GitHubManager call
\* The call takes a step / ends with this step.
CallStep == gpc' # gpc /\ gpc # "done" /\ gpc # "idle"
CallEnds == gpc' = "done" /\ gpc # "done"
\* No other writer has touched the file since the call fetched it.
Undisturbed == files[call.path] = edited /\ sha_data = edited
LinesOf(f) == Split(f.content)

\* C12: insert_lines on an existing file of n lines: for 1 <= line <= n+1
\* the lines of the content are put before the line at that index (after
\* the last line when line = n+1) and the file is overwritten with the
\* result; for any other line the call fails as out of range.
C12_Expected(old, l, ins) ==
    [i \in 1..(Len(old) + Len(ins)) |->
        IF i < l THEN old[i]
        ELSE IF i < l + Len(ins) THEN ins[i - l + 1]
        ELSE old[i - Len(ins)]]
C12_Step ==
    call.method = "insert_lines" =>
        /\ (gpc = "fetch" /\ CallStep /\ files[call.path].exists) =>
              LET n == Len(LinesOf(files[call.path])) IN
              IF 1 <= call.line /\ call.line <= n + 1
              THEN gpc' = "refetch" /\ gresult' = "-"
              ELSE gpc' = "done" /\ gresult' = "range" /\ files' = files
        /\ (gpc = "put" /\ CallEnds /\ Undisturbed) =>
              /\ gresult' = "ok"
              /\ files'[call.path] =
                    File(Join(C12_Expected(LinesOf(edited), call.line,
                                           Split(call.content))))
C12_InsertLines == [][C12_Step]_vars
C12_Witness ==
    /\ gpc = "done"
    /\ call.method = "insert_lines"
    /\ gresult = "ok"
    /\ Len(LinesOf(edited)) = 2
    /\ call.line = 3
    /\ files[call.path].content = edited.content \o <<NL>> \o call.content

\* C13: an insert_lines at line L of k lines that succeeded, followed with no
\* other change of the file by delete_lines(L, L+k-1), leaves the content
\* the file had before the insert.
C13_Step ==
    (pre_insert.set /\ call.method = "delete_lines" /\ CallEnds) =>
        /\ gresult' = "ok"
        /\ files'[call.path] = File(pre_insert.content)
C13_RoundTrip == [][C13_Step]_vars
C13_Witness ==
    /\ gpc = "done"
    /\ call.method = "delete_lines"
    /\ gresult = "ok"
    /\ ~pre_insert.set
    /\ pre_insert.k = 2
    /\ pre_insert.line = 2
    /\ call.start_line = 2 /\ call.end_line = 3
    /\ files[call.path].content = pre_insert.content

\* C14: delete_lines on an existing file of n lines removes the lines
\* start..end and keeps the others in order when 1 <= start <= end <= n,
\* and fails as out of range in every other case.
C14_Expected(old, s, e) ==
    [i \in 1..(Len(old) - (e - s + 1)) |->
        IF i < s THEN old[i] ELSE old[i + (e - s + 1)]]
C14_Step ==
    call.method = "delete_lines" =>
        /\ (gpc = "fetch" /\ CallStep /\ files[call.path].exists) =>
              LET n == Len(LinesOf(files[call.path])) IN
              IF 1 <= call.start_line /\ call.start_line <= call.end_line
                 /\ call.end_line <= n
              THEN gpc' = "refetch" /\ gresult' = "-"
              ELSE gpc' = "done" /\ gresult' = "range" /\ files' = files
        /\ (gpc = "put" /\ CallEnds /\ Undisturbed) =>
              /\ gresult' = "ok"
              /\ files'[call.path] =
                    File(Join(C14_Expected(LinesOf(edited), call.start_line,
                                           call.end_line)))
C14_DeleteLines == [][C14_Step]_vars
C14_Witness ==
    /\ gpc = "done"
    /\ call.method = "delete_lines"
    /\ gresult = "ok"
    /\ Len(LinesOf(edited)) = 3
    /\ call.start_line = 2 /\ call.end_line = 2
    /\ LinesOf(files[call.path]) = <<LinesOf(edited)[1], LinesOf(edited)[3]>>

\* C15: create_file on a path that exists fails with the store's conflict
\* and leaves the file as it was; on a path that does not exist it creates
\* the file.
C15_Step ==
    (call.method = "create_file" /\ CallEnds) =>
        IF files[call.path].exists
        THEN gresult' = "conflict" /\ files' = files
        ELSE gresult' = "ok" /\ files'[call.path] = File(call.content)
C15_CreateNeverOverwrites == [][C15_Step]_vars
C15_Witness ==
    /\ gpc = "done"
    /\ call.method = "create_file"
    /\ gresult = "conflict"
    /\ files[call.path].exists
    /\ files[call.path].content # call.content

\* C16: overwrite_file on a path that does not exist creates the file with
\* the given content; on a path that exists it writes with the sha its own
\* fetch returned, so the write goes through exactly when the file still
\* has that sha.
C16_Step ==
    call.method = "overwrite_file" =>
        /\ (gpc = "refetch" /\ CallStep) =>
              /\ sha_data' = files[call.path]
              /\ gpc' = IF files[call.path].exists THEN "put" ELSE "create"
        /\ (gpc = "create" /\ CallEnds /\ ~files[call.path].exists) =>
              gresult' = "ok" /\ files'[call.path] = File(call.content)
        /\ (gpc = "put" /\ CallEnds) =>
              IF files[call.path] = sha_data
              THEN gresult' = "ok" /\ files'[call.path] = File(call.content)
              ELSE gresult' = "conflict" /\ files' = files
C16_OverwriteFallsBack == [][C16_Step]_vars
C16_Witness ==
    /\ gpc = "done"
    /\ call.method = "overwrite_file"
    /\ gresult = "ok"
    /\ ~sha_data.exists
    /\ files[call.path] = File(call.content)

\* C17: delete_file, insert_lines and delete_lines on a missing path fail
\* and create nothing; insert_lines and delete_lines with a line out of
\* range fail and write nothing; a call that fails leaves the tree as it is.
C17_OutOfRange(c, n) ==
    \/ c.method = "insert_lines" /\ (c.line < 1 \/ c.line > n + 1)
    \/ c.method = "delete_lines"
          /\ (c.start_line < 1 \/ c.end_line > n \/ c.start_line > c.end_line)
C17_Step ==
    /\ (gpc = "fetch" /\ CallStep /\ ~files[call.path].exists) =>
          gpc' = "done" /\ gresult' = "missing" /\ files' = files
    /\ (gpc = "fetch" /\ CallStep /\ files[call.path].exists
           /\ C17_OutOfRange(call, Len(LinesOf(files[call.path])))) =>
          gpc' = "done" /\ gresult' = "range" /\ files' = files
    /\ (CallEnds /\ gresult' # "ok") => files' = files
C17_FailureLeavesTree == [][C17_Step]_vars
C17_Witness ==
    /\ gpc = "done"
    /\ call.method = "insert_lines"
    /\ gresult = "missing"
    /\ ~files[call.path].exists
    /\ ~edited.exists

\* C18: insert_lines and delete_lines write with the sha fetched together
\* with the content they edited: when the file is no longer the one they
\* fetched, the write is rejected and changes nothing.
C18_StaleWriteRejected ==
    [][(call.method \in {"insert_lines", "delete_lines"}
           /\ gpc \in {"put", "create"} /\ CallEnds /\ files[call.path] # edited)
        => (gresult' # "ok" /\ files' = files)]_vars

\* C19: at most one workflow is applying operations to the remote tree at
\* any moment, whatever requests are submitted.
C19_OneApplierAtATime ==
    Cardinality({th \in Threads : workflows[th].phase \in Applying}) <= 1

\* C20: a workflow whose first apply step returned 0, or whose reply held
\* no operation, has stopped with the report that nothing changed: one
\* model call, no verification, no wait_for_deployment.
C20_ZeroCountStops ==
    \A th \in Threads :
        LET w == workflows[th] IN
        (w.first_count = 0 \/ w.report = "no_code") =>
            /\ w.phase = "done"
            /\ w.report \in {"no_changes", "no_code"}
            /\ w.chats = 1
            /\ w.waits = 0
C20_Witness ==
    \E th \in Threads :
        /\ workflows[th].first_count = 0
        /\ workflows[th].phase = "done"
        /\ workflows[th].report = "no_changes"
        /\ workflows[th].chats = 1

\* C21 (as claimed): once the verification reply started with
\* VERIFY_COMPLETE the workflow has stopped: it is at its end, no
\* wait_for_deployment has been started and no evaluation requested.
C21_VerifiedStops ==
    observed.verdict = "verified" =>
        /\ workflows[1].phase = "done"
        /\ workflows[1].waits = 0
        /\ observed.evaluation = "-"

\* C22 (as claimed): when apply_operations_recursive has returned from a
\* list that is one NEEDS_RETRY with fixes, the operations of the fixes
\* have been applied, in their order.
C22_RetryFixesApplied ==
    (/\ apc = "returned"
     /\ Len(operations) = 1
     /\ OpType(operations[1]) = "NEEDS_RETRY"
     /\ "fixes" \in operations[1].keys)
        => OpsOf(applied) = operations[1].fixes

\* C23 (as claimed): the step that receives an evaluation reply holding
\* operations that do not start with VERIFY_COMPLETE goes on to apply them.
C23_Step ==
    /\ workflows[1].phase = "evaluate"
    /\ observed.evaluation = "-"
    /\ observed'.evaluation = "fixes"
C23_EvaluationFixesApplied ==
    [][C23_Step => workflows'[1].phase \in Applying]_vars

\* C24 (as claimed): a workflow that ended without an exception after a
\* first FAILED or CRASHED has run wait_for_deployment twice.
C24_AlwaysRerun ==
    (/\ workflows[1].phase = "done"
     /\ workflows[1].report = "finished"
     /\ observed.first_status \in {"FAILED", "CRASHED"})
        => workflows[1].waits = 2

\* C24: after FAILED or CRASHED the workflow asks the model once more and
\* applies the operations of the reply; it runs wait_for_deployment again,
\* once, exactly if a fix was applied. No run calls wait_for_deployment
\* more than twice or the model more than three times, and every workflow
\* that started reaches its end.
C24_Bounded ==
    /\ \A th \in Threads : workflows[th].waits <= 2 /\ workflows[th].chats <= 3
    /\ workflows[1].waits = 2 =>
           /\ observed.first_status \in {"FAILED", "CRASHED"}
           /\ observed.refix = "some"
    /\ (workflows[1].phase = "done" /\ observed.refix \in {"none", "zero"}) =>
           workflows[1].waits = 1
    /\ (/\ workflows[1].phase = "done"
        /\ workflows[1].report = "finished"
        /\ observed.refix = "some") => workflows[1].waits = 2
C24_OneExtraRound ==
    /\ []C24_Bounded
    /\ \A th \in Threads :
           (workflows[th].phase # "none") ~> (workflows[th].phase = "done")
C24_Witness ==
    /\ workflows[1].phase = "done"
    /\ workflows[1].report = "finished"
    /\ observed.first_status = "FAILED"
    /\ observed.refix = "some"
    /\ workflows[1].waits = 2
    /\ workflows[1].chats = 3

\* C25: a failed file mutation does not end the workflow: the step in
\* which one failed is a step of the normal course, with no fatal report.
\* A model call that fails ends it: the step from a phase that calls the
\* model either counts a reply or is fatal, a fatal workflow is at its end,
\* and a workflow at its end takes no further step (no mutation, no wait).
C25_ModelPhases == {"chat", "verify", "evaluate", "analyze"}
C25_Step(th) ==
    LET w == workflows[th]  w2 == workflows'[th] IN
    /\ (w.phase = "done" => w2 = w)
    /\ (w2.report = "fatal" => w2.phase = "done")
    /\ (w.phase \in C25_ModelPhases /\ w2 # w /\ w2.chats = w.chats) =>
           (w2.report = "fatal" /\ w2.phase = "done" /\ w2.waits = w.waits)
    /\ (th = 1 /\ observed'.mutation_failed /\ ~observed.mutation_failed) =>
           (w.phase \in Applying /\ w2.report # "fatal" /\ w2.phase # w.phase)
C25_OnlyModelFailureEnds ==
    [][\A th \in Threads : C25_Step(th)]_vars
C25_Witness ==
    /\ observed.mutation_failed
    /\ observed.verdict = "-"
    /\ workflows[1].phase = "done"
    /\ workflows[1].report = "fatal"
    /\ workflows[1].chats = 1
    /\ workflows[1].first_count >= 1
    /\ workflows[1].waits = 0

\* C26 (as claimed): a response that holds a non-empty deployment list,
\* wrapped in data or flattened, makes get_latest_deployment return the
\* first deployment of the list.
C26_EitherShapeYieldsFirst ==
    (/\ api_result.kind \in EdgeKinds
     /\ Len(api_result.edges) > 0
     /\ api_result.edges[1].status # NoField)
        => latest = [t |-> "returned", node |-> api_result.edges[1]]

\* ---- the claims on the parsing of a reply
Extracted == ppc \in {"extracted", "parsed", "validated"}
Concatenation == code_matches \o brace_objects \o keyword_objects
FirstIndex(s, x) == Least({i \in 1..Len(s) : s[i] = x})

C28_FencedCreate(text) ==
    \E tag \in Tags, pre \in {<<>>, <<"x", " ">>, <<"Here is", " ">>},
       post \in {<<>>, <<" ", "x">>} :
        text = pre \o Fenced(tag, OperationsObject) \o post

\* C28 (as claimed): for such a reply the extractor yields exactly one
\* candidate, the inner JSON text.
C28_ExactlyOneCandidate ==
    (Extracted /\ C28_FencedCreate(response)) =>
        unique_candidates = <<OperationsObject>>

\* C28: for such a reply the first candidate of the extractor is the inner
\* JSON text; the keyword strategy adds further candidates cut out of it,
\* the CREATE_FILE object among them; parsing and validation yield exactly
\* one operation, the CREATE_FILE.
C28_FirstCandidateIsPayload ==
    (Extracted /\ C28_FencedCreate(response)) =>
        /\ unique_candidates[1] = OperationsObject
        /\ Len(unique_candidates) >= 2
        /\ \E i \in 2..Len(unique_candidates) : unique_candidates[i] = SingleObject
        /\ ppc = "parsed" =>
               validate_operations(parsed_operations)
                   = <<CreateFile("a.py", <<"x=1">>)>>
C28_Witness ==
    /\ ppc = "parsed"
    /\ response = <<"x", " ">> \o Fenced(<<"json">>, OperationsObject)
    /\ Len(unique_candidates) = 3
    /\ Len(parsed_operations) = 1

\* The candidates of pattern p as claimed: for each piece from position pos
\* on that holds the phrase, the text from the first { after it to the last
\* } of the text.
RECURSIVE C29_ToLastBrace(_, _, _)
C29_ToLastBrace(text, p, pos) ==
    IF pos > Len(text) THEN <<>>
    ELSE LET opens == {j \in pos..Len(text) : text[j] = "{"}
             closes == {k \in pos..Len(text) : text[k] = "}"}
         IN  (IF /\ HasKeyword(p, text[pos])
                 /\ opens # {}
                 /\ \E k \in closes : k > Least(opens)
              THEN <<SubSeq(text, Least(opens), LastClose(closes))>>
              ELSE <<>>) \o C29_ToLastBrace(text, p, pos + 1)
RECURSIVE C29_Claimed(_, _)
C29_Claimed(text, p) ==
    IF p > NumPatterns THEN <<>>
    ELSE C29_ToLastBrace(text, p, 1) \o C29_Claimed(text, p + 1)

\* C29 (as claimed): the keyword strategy yields, for each occurrence of a
\* phrase, the candidate from the first { after the phrase to the last } of
\* the text.
C29_KeywordToLastBrace ==
    Extracted => keyword_objects = C29_Claimed(response, 1)

\* C30 (as claimed): a reply one of whose extracted candidates parses to
\* valid operations never yields an empty result.
C30_CandidateWithOperations ==
    \E i \in 1..Len(unique_candidates) :
        validate_operations(CandidateOperations(unique_candidates[i])) # <<>>
C30_NeverEmpty ==
    (ppc = "parsed" /\ C30_CandidateWithOperations) => parsed_operations # <<>>


\* ======================================================================
\* C31: validate_operations keeps a file mutation record exactly when, once
\* its null fields are removed, it has its tag and every field its kind
\* requires; every other record that is no MULTIPLE_OPERATIONS and no signal
\* is dropped, and the kept records, without their null fields, come in
\* the order of the list given.
LeafKinds ==
    {"CREATE_FILE", "OVERWRITE_FILE", "INSERT_LINES", "DELETE_FILE", "DELETE_LINES"}
C31_Required(kind) ==
    CASE kind \in {"CREATE_FILE", "OVERWRITE_FILE"} -> {"path", "content"}
      [] kind = "INSERT_LINES" -> {"path", "line", "content"}
      [] kind = "DELETE_FILE" -> {"path"}
      [] kind = "DELETE_LINES" -> {"path", "start_line", "end_line"}
WithoutNulls(op) == [op EXCEPT !.keys = op.keys \ op.nulls, !.nulls = {}]
C31_Keeps(op) ==
    /\ IsMapping(op)
    /\ "operation" \in op.keys \ op.nulls
    /\ op.operation \in LeafKinds
    /\ C31_Required(op.operation) \subseteq op.keys \ op.nulls
C31_Expected(ops) ==
    LET kept == SelectSeq(ops, LAMBDA op : C31_Keeps(op)) IN
    [i \in 1..Len(kept) |-> WithoutNulls(kept[i])]
C31_LeafRule ==
    vpc \in {"validated", "revalidated"} =>
        /\ SelectSeq(valid_operations, LAMBDA op : op.operation \in LeafKinds)
               = C31_Expected(raw_operations)
        /\ \A i \in 1..Len(valid_operations) :
               valid_operations[i].operation
                   \in LeafKinds \cup {"MULTIPLE_OPERATIONS", "VERIFY_COMPLETE",
                                       "NEEDS_RETRY"}
\* A list of three records was validated: the second one has its tag and
\* holds null under a field its kind requires, and the two around it are kept.
C31_Witness ==
    /\ vpc = "validated"
    /\ Len(raw_operations) = 3
    /\ "operation" \in raw_operations[2].keys \ raw_operations[2].nulls
    /\ raw_operations[2].nulls # {}
    /\ valid_operations = <<raw_operations[1], raw_operations[3]>>

\* C32: validate_operations returns its own result unchanged.
C32_Idempotent ==
    vpc = "revalidated" => revalidated = valid_operations
\* A list was validated twice whose first validation dropped a record and
\* kept a MULTIPLE_OPERATIONS.
C32_Witness ==
    /\ vpc = "revalidated"
    /\ valid_operations # raw_operations
    /\ \E i \in 1..Len(valid_operations) :
           valid_operations[i].operation = "MULTIPLE_OPERATIONS"

\* C33: a MULTIPLE_OPERATIONS is kept exactly when one of the records below
\* it, at whatever depth, is kept; it then holds its kept records in their
\* order, each MULTIPLE_OPERATIONS among them treated the same way.
IsMultiple(op) ==
    /\ IsMapping(op)
    /\ "operation" \in op.keys \ op.nulls
    /\ op.operation = "MULTIPLE_OPERATIONS"
RECURSIVE C33_Survives(_), C33_Pruned(_)
C33_Survives(op) ==
    IF IsMultiple(op)
    THEN /\ "operations" \in op.keys \ op.nulls
         /\ \E i \in 1..Len(op.operations) : C33_Survives(op.operations[i])
    ELSE \/ C31_Keeps(op)
         \/ /\ IsMapping(op)
            /\ "operation" \in op.keys \ op.nulls
            /\ op.operation \in {"VERIFY_COMPLETE", "NEEDS_RETRY"}
C33_Pruned(op) ==
    IF IsMultiple(op)
    THEN LET kept == SelectSeq(op.operations, LAMBDA o : C33_Survives(o)) IN
         [WithoutNulls(op) EXCEPT
             !.operations = [i \in 1..Len(kept) |-> C33_Pruned(kept[i])]]
    ELSE WithoutNulls(op)
C33_NestingPreserved ==
    vpc \in {"validated", "revalidated"} =>
        LET kept == SelectSeq(raw_operations, LAMBDA o : C33_Survives(o)) IN
        valid_operations = [i \in 1..Len(kept) |-> C33_Pruned(kept[i])]
\* A MULTIPLE_OPERATIONS was validated that holds a MULTIPLE_OPERATIONS
\* which is kept and a record which is dropped.
C33_Witness ==
    /\ vpc = "validated"
    /\ Len(raw_operations) = 1
    /\ IsMultiple(raw_operations[1])
    /\ Len(raw_operations[1].operations) = 2
    /\ Len(valid_operations) = 1
    /\ Len(valid_operations[1].operations) = 1
    /\ valid_operations[1].operations[1].operation = "MULTIPLE_OPERATIONS"


\* C34 (amended): a reply that is a VERIFY_COMPLETE or NEEDS_RETRY object,
\* bare or fenced, parses to that one operation with its message and its
\* fixes as written, and validate_operations returns it without its null
\* fields and otherwise unchanged, whatever the fixes hold.
C34_Presentations(body) ==
    {body, <<" ">> \o body \o <<" ">>}
    \cup {Fenced(tag, body) : tag \in Tags}
    \cup {<<"Here is", " ">> \o Fenced(tag, body) : tag \in Tags}
C34_Signal(kind, message, keys, fixes) ==
    [Record(kind, keys, {}, "", <<>>, 0, 0, 0, <<>>)
        EXCEPT !.message = message, !.fixes = fixes]
C34_Written(body) ==
    CASE body = VerifyObject ->
           C34_Signal("VERIFY_COMPLETE", <<"ok">>, {"operation", "message"}, <<>>)
      [] body = RetryObject ->
           C34_Signal("NEEDS_RETRY", <<"retry">>, {"operation", "message", "fixes"},
                      <<CreateFile("a.py", <<"x=1">>),
                        Record(NoField, {"comment"}, {}, "", <<>>, 0, 0, 0, <<>>)>>)
      [] body = RetryNestedObject ->
           C34_Signal("NEEDS_RETRY", <<"retry">>, {"operation", "message", "fixes"},
                      <<MultipleOperations(<<CreateFile("a.py", <<"x=1">>)>>)>>)
      [] body = VerifyNullObject ->
           [C34_Signal("VERIFY_COMPLETE", <<>>, {"operation", "message"}, <<>>)
               EXCEPT !.nulls = {"message"}]
C34_SignalReply == \E body \in SignalPayloads : response \in C34_Presentations(body)
C34_SignalKept ==
    ppc = "validated" =>
        \A body \in SignalPayloads :
            response \in C34_Presentations(body) =>
                /\ parsed_operations = <<C34_Written(body)>>
                /\ validated_operations = <<WithoutNulls(C34_Written(body))>>
\* C34 (as claimed): validate_operations returns the signal with every
\* field it was parsed with.
C34_FieldsIntact ==
    (ppc = "validated" /\ C34_SignalReply) => validated_operations = parsed_operations
\* A fenced NEEDS_RETRY whose second fix has no operation tag went through
\* parsing and validation.
C34_Witness ==
    /\ ppc = "validated"
    /\ response = Fenced(<<"json">>, RetryObject)
    /\ Len(validated_operations) = 1
    /\ Len(validated_operations[1].fixes) = 2

\* C35: when no part of the reply parses as JSON, as it is or with its
\* trailing commas taken out, parse_operations returns one operation for
\* VERIFY_COMPLETE and one for NEEDS_RETRY if the reply holds the name, in
\* that order, each with the whole reply as its message, and nothing for
\* the other names.
C35_Spans(text) == {s \in (1..Len(text)) \X (1..Len(text)) : s[1] <= s[2]}
C35_NothingParses(text) ==
    \A s \in C35_Spans(text) :
        LET part == SubSeq(text, s[1], s[2]) IN
        /\ json_loads(part) = ParsedNone
        /\ json_loads(FixTrailing(FixTrailing(part, "}"), "]")) = ParsedNone
C35_Names(text, name) == \E i \in 1..Len(text) : Mentions(name, text[i])
C35_Synthesized(text) ==
    LET signal(name) ==
            IF C35_Names(text, name)
            THEN <<C34_Signal(name, text, {"operation", "message"}, <<>>)>>
            ELSE <<>>
    IN  signal("VERIFY_COMPLETE") \o signal("NEEDS_RETRY")
C35_OnlySignalsSynthesized ==
    (ppc \in {"parsed", "validated"} /\ C35_NothingParses(response)) =>
        parsed_operations = C35_Synthesized(response)
\* A reply of prose that names NEEDS_RETRY and CREATE_FILE was parsed to the
\* one NEEDS_RETRY.
C35_Witness ==
    /\ ppc = "parsed"
    /\ response = <<"NEEDS_RETRY", " ", "CREATE_FILE">>
    /\ Len(parsed_operations) = 1
    /\ parsed_operations[1].operation = "NEEDS_RETRY"
    /\ parsed_operations[1].message = response

\* C36 (as claimed): a reply no part of which is valid JSON yields no
\* operation.
C36_NoValidJson(text) ==
    \A s \in C35_Spans(text) : json_loads(SubSeq(text, s[1], s[2])) = ParsedNone
C36_MalformedYieldsEmpty ==
    (ppc \in {"parsed", "validated"} /\ C36_NoValidJson(response)) =>
        parsed_operations = <<>>
\* C36 (amended): parse_operations yields no operation for a reply of which
\* nothing parses even with trailing commas taken out and which names
\* neither signal, and for a reply that is a JSON number, a list without a
\* mapping that has an operation key, or a mapping with neither an
\* operation nor an operations key.
C36_UnexpectedShape(v) ==
    \/ v = ParsedNumber
    \/ /\ IsList(v)
       /\ \A i \in 1..Len(v.operations) :
              ~(IsMapping(v.operations[i]) /\ "operation" \in v.operations[i].keys)
    \/ IsMapping(v) /\ v.keys \cap {"operation", "operations"} = {}
C36_Quiet(text) ==
    \/ /\ C35_NothingParses(text)
       /\ ~C35_Names(text, "VERIFY_COMPLETE")
       /\ ~C35_Names(text, "NEEDS_RETRY")
    \/ C36_UnexpectedShape(json_loads(Strip(text)))
C36_EmptyWhenNothingFound ==
    (ppc \in {"parsed", "validated"} /\ C36_Quiet(response)) =>
        parsed_operations = <<>>
\* A CREATE_FILE cut off before its closing brace was parsed to nothing.
C36_Witness ==
    /\ ppc = "parsed"
    /\ response = <<"{", CreateMembers>>
    /\ parsed_operations = <<>>

\* C37: a VERIFY_COMPLETE ends the activation of the list it appears in with
\* a status and a complete event put at that point and no mutation, and the
\* caller of a nested list goes on with the operation after the block; a
\* NEEDS_RETRY is reported and the loop goes on with the operation after it;
\* no activation is ever past a VERIFY_COMPLETE of its list.
C37_VerifyStep ==
    (AtOperation /\ OpType(operation) = "VERIFY_COMPLETE") =>
        /\ files' = files
        /\ applied' = applied
        /\ Len(stack') = Len(stack) - 1
        /\ Len(message_queue') >= Len(message_queue) + 2
        /\ SubSeq(message_queue', 1, Len(message_queue) + 2) =
               message_queue \o <<Event("status", "-", "-"), Event("complete", "-", "-")>>
        /\ IF Len(stack) = 1 THEN apc' = "returned"
           ELSE /\ apc' = "applying"
                /\ stack'[Len(stack')].ops = stack[Len(stack) - 1].ops
                /\ stack'[Len(stack')].i = stack[Len(stack) - 1].i + 1
C37_RetryStep ==
    (AtOperation /\ OpType(operation) = "NEEDS_RETRY") =>
        /\ files' = files
        /\ applied' = applied
        /\ apc' = "applying"
        /\ Len(stack') = Len(stack)
        /\ stack'[Len(stack')].ops = Top.ops
        /\ stack'[Len(stack')].i = Top.i + 1
        /\ message_queue' = Append(message_queue, Event("error", "NEEDS_RETRY", "-"))
C37_NotPastVerify ==
    \A k \in 1..Len(stack) : \A j \in 1..(stack[k].i - 1) :
        j <= Len(stack[k].ops) => OpType(stack[k].ops[j]) # "VERIFY_COMPLETE"
C37_SignalsInTheLoop ==
    [][C37_VerifyStep /\ C37_RetryStep]_vars /\ []C37_NotPastVerify
\* A list of a NEEDS_RETRY, a nested list of a VERIFY_COMPLETE before a
\* CREATE_FILE, and an OVERWRITE_FILE: only the OVERWRITE_FILE was applied.
C37_Witness ==
    /\ apc = "returned"
    /\ operations \in SignalBatches
    /\ OpsOf(applied) = <<operations[3]>>
    /\ applied[1].ok
    /\ returned_count = 1
    /\ SubSeq(message_queue, 1, 4) =
           <<Event("error", "NEEDS_RETRY", "-"), Event("status", "-", "-"),
             Event("complete", "-", "-"), Event("operation_success", "nested", "-")>>

\* C38: when the first poll finds a deployment in a terminal status, with
\* the id the call was given or with another one, the call goes on to that
\* deployment's logs and returns its status and id within that poll: it
\* never sleeps (all the time elapsed is request time) and never returns to
\* the loop head.
C38_FirstPollTerminalReturns ==
    (poll_count = 1 /\ sawTerminal) =>
        /\ pc \in {"logs", "done"}
        /\ elapsed = slow * REQUEST_TIMEOUT
        /\ pc = "done" =>
              /\ result.status = last_status
              /\ result.id = last_deployment_id

\* C39: a workflow that has ended, on any path, has put exactly one event
\* of type complete, and that event is the last one it put.
C39_ExactlyOneCompleteLast ==
    workflows[1].phase = "done" =>
        /\ observed.completes = 1
        /\ observed.complete_last

====
